---- MODULE Spec2Model ----
(***************************************************************************)
(* A model of the Remnant 2 save-file codec (src/editor): the byte reader  *)
(* and writer, the FString encoding, the CRC32 header check, the chunked   *)
(* zlib envelope and the save document (names table, objects, property     *)
(* bags).                                                                  *)
(*                                                                         *)
(* Representation.  A byte string is a sequence over 0..255.  A fixed      *)
(* width integer of the file format is carried as the tuple of its little  *)
(* endian bytes (what struct.pack yields for it); I32Val, U16Val, U32Val   *)
(* give its value where the code computes with it.  A Python str is the    *)
(* sequence of its code points.  An optional value (x or None) is the      *)
(* empty sequence for None and <<x>> otherwise.                            *)
(***************************************************************************)
EXTENDS Integers, Sequences, FiniteSets, TLC

(***************************************************************************)
(* Bounds of the model.                                                    *)
(***************************************************************************)
MaxStrLen == 3
MaxCrcLen == 6
MaxCrcEdits == 3
MaxEnvSmall == 14
MaxEnvChunks == 2
MaxEnvEdits == 2
MaxDocMuts == 2
MaxDocSites == 6
MaxDocWrites == 2
MaxCtrActors == 2
MaxCtrDestroyed == 2
MaxTicks == 360
MaxValItems == 3
MaxRdLen == 2
MaxRdCount == 3
MaxRdOps == 3
MaxEnvFaults == 2

(***************************************************************************)
(* Bytes and fixed-width integers.                                         *)
(***************************************************************************)
NONE == <<>>
Some(x) == <<x>>
IsNone(o) == o = <<>>

Min(a, b) == IF a < b THEN a ELSE b
Max(a, b) == IF a > b THEN a ELSE b

Zeros(n) == [i \in 1..n |-> 0]

\* struct.pack('<i', n)
I32(n) ==
    LET m == IF n < 0 THEN (n + 2147483647) + 1 ELSE n
        top == m \div 16777216
    IN  <<m % 256, (m \div 256) % 256, (m \div 65536) % 256,
          IF n < 0 THEN top + 128 ELSE top>>

\* struct.pack('<I', n) and struct.pack('<H', n), struct.pack('<B', n)
U32(n) == <<n % 256, (n \div 256) % 256, (n \div 65536) % 256, n \div 16777216>>
U16(n) == <<n % 256, n \div 256>>
U8(n) == <<n>>

\* struct.unpack of '<i', '<H', '<B'
I32Val(b) == b[1] + 256 * b[2] + 65536 * b[3]
             + 16777216 * (IF b[4] >= 128 THEN b[4] - 256 ELSE b[4])
U16Val(b) == b[1] + 256 * b[2]
U8Val(b) == b[1]
\* struct.unpack('<I'): the value when it is below 2^31 (U32Fits), which is
\* the range of the model's integers
U32Fits(b) == b[4] < 128
U32Val(b) == b[1] + 256 * b[2] + 65536 * b[3] + 16777216 * b[4]

\* data[a:b] of Python, for any integers a and b
PySlice(data, a, b) ==
    LET n == Len(data)
        Norm(i) == IF i < 0 THEN Max(i + n, 0) ELSE Min(i, n)
    IN  SubSeq(data, Norm(a) + 1, Norm(b))

(***************************************************************************)
(* str.encode / bytes.decode for 'ascii' and 'utf-16-le'.                  *)
(***************************************************************************)
IsSurrogate(c) == c >= 55296 /\ c <= 57343

\* the UTF-16 code units of one code point
Utf16Units(c) ==
    IF c < 65536 THEN <<c>>
    ELSE <<55296 + ((c - 65536) \div 1024), 56320 + ((c - 65536) % 1024)>>

RECURSIVE EncodeUtf16LE(_)
EncodeUtf16LE(s) ==
    IF s = <<>> THEN <<>>
    ELSE LET u == Utf16Units(Head(s))
         IN  (IF Len(u) = 1 THEN U16(u[1]) ELSE U16(u[1]) \o U16(u[2]))
             \o EncodeUtf16LE(Tail(s))

EncodeAscii(s) == s

\* bytes.decode('ascii'): [ok, v]
DecodeAscii(data) ==
    IF \A i \in 1..Len(data) : data[i] < 128
    THEN [ok |-> TRUE, v |-> data]
    ELSE [ok |-> FALSE, v |-> <<>>]

\* the code points of a sequence of UTF-16 code units, [ok, v]
RECURSIVE DecodeUnits(_)
DecodeUnits(u) ==
    IF u = <<>> THEN [ok |-> TRUE, v |-> <<>>]
    ELSE IF ~IsSurrogate(u[1])
    THEN LET rest == DecodeUnits(Tail(u))
         IN  [ok |-> rest.ok, v |-> <<u[1]>> \o rest.v]
    ELSE IF u[1] < 56320 /\ Len(u) >= 2 /\ u[2] >= 56320 /\ u[2] <= 57343
    THEN LET rest == DecodeUnits(SubSeq(u, 3, Len(u)))
         IN  [ok |-> rest.ok,
              v |-> <<65536 + (u[1] - 55296) * 1024 + (u[2] - 56320)>> \o rest.v]
    ELSE [ok |-> FALSE, v |-> <<>>]

\* bytes.decode('utf-16-le'): [ok, v]
DecodeUtf16LE(data) ==
    IF Len(data) % 2 # 0 THEN [ok |-> FALSE, v |-> <<>>]
    ELSE DecodeUnits([i \in 1..(Len(data) \div 2) |->
                          data[2 * i - 1] + 256 * data[2 * i]])

(***************************************************************************)
(* Writer (src/editor/io/writer.py): a BytesIO buffer and its position.    *)
(***************************************************************************)
NewWriter == [buf |-> <<>>, pos |-> 0]

\* BytesIO.write at the current position: overwrites, extends, zero-fills
write_bytes(w, data) ==
    LET n == Len(data)
        before == IF w.pos <= Len(w.buf) THEN SubSeq(w.buf, 1, w.pos)
                  ELSE w.buf \o Zeros(w.pos - Len(w.buf))
    IN  [buf |-> before \o data \o SubSeq(w.buf, w.pos + n + 1, Len(w.buf)),
         pos |-> w.pos + n]

\* the position setter (seek)
SetWriterPosition(w, value) == [w EXCEPT !.pos = value]
to_bytes(w) == w.buf

write_uint8(w, v) == write_bytes(w, v)
write_int16(w, v) == write_bytes(w, v)
write_uint16(w, v) == write_bytes(w, v)
write_int32(w, v) == write_bytes(w, v)
write_uint32(w, v) == write_bytes(w, v)
write_int64(w, v) == write_bytes(w, v)
write_uint64(w, v) == write_bytes(w, v)

IsAsciiStr(s) == \A i \in 1..Len(s) : s[i] < 128

write_fstring_utf16_unscaled(w, value) ==
    IF IsNone(value) THEN write_int32(w, I32(0))
    ELSE LET s == value[1] IN
         IF IsAsciiStr(s)
         THEN write_uint8(write_bytes(write_int32(w, I32(Len(s) + 1)),
                                      EncodeAscii(s)), U8(0))
         ELSE write_int16(write_bytes(write_int32(w, I32(-(Len(s) + 1))),
                                      EncodeUtf16LE(s)), <<0, 0>>)

\* Writer.write_fstring
write_fstring(w, value) ==
    IF IsNone(value) THEN write_int32(w, I32(0))
    ELSE LET s == value[1] IN
         IF IsAsciiStr(s)
         THEN LET byte_count == Len(s) + 1
              IN  write_uint8(write_bytes(write_int32(w, I32(byte_count)),
                                          EncodeAscii(s)), U8(0))
         ELSE LET char_count == Len(s) + 1
              IN  write_int16(write_bytes(write_int32(w, I32(-2 * char_count)),
                                          EncodeUtf16LE(s)), <<0, 0>>)

(***************************************************************************)
(* Reader (src/editor/io/reader.py): the data and a position.  A read      *)
(* yields [ok, v, r]: ok is FALSE when the code raises, v is the value     *)
(* returned and r the reader afterwards.                                   *)
(***************************************************************************)
NewReader(data) == [data |-> data, pos |-> 0]
Fail(r) == [ok |-> FALSE, v |-> <<>>, r |-> r]
Ok(v, r) == [ok |-> TRUE, v |-> v, r |-> r]

\* the position setter
SetReaderPosition(r, value) ==
    IF value < 0 \/ value > Len(r.data) THEN Fail(r)
    ELSE Ok(<<>>, [r EXCEPT !.pos = value])

\* read_bytes that moves the position before it compares it with the size
read_bytes_moving(r, count) ==
    IF count > Len(r.data) - r.pos THEN Fail([r EXCEPT !.pos = r.pos + count])
    ELSE Ok(PySlice(r.data, r.pos, r.pos + count),
            [r EXCEPT !.pos = r.pos + count])

read_bytes(r, count) ==
    IF count > Len(r.data) - r.pos THEN Fail(r)
    ELSE Ok(PySlice(r.data, r.pos, r.pos + count),
            [r EXCEPT !.pos = r.pos + count])

\* struct.unpack of a fixed-width value: fails unless it gets n bytes
ReadFixed(r, n) ==
    LET b == read_bytes(r, n)
    IN  IF b.ok /\ Len(b.v) = n THEN b ELSE Fail(b.r)

read_uint8(r) == ReadFixed(r, 1)
read_int16(r) == ReadFixed(r, 2)
read_uint16(r) == ReadFixed(r, 2)
read_int32(r) == ReadFixed(r, 4)
read_uint32(r) == ReadFixed(r, 4)
read_int64(r) == ReadFixed(r, 8)
read_uint64(r) == ReadFixed(r, 8)

\* Reader.read_fstring
read_fstring(r) ==
    LET len == read_int32(r) IN
    IF ~len.ok THEN Fail(len.r)
    ELSE LET length == I32Val(len.v) IN
    IF length = 0 THEN Ok(NONE, len.r)
    ELSE IF length < 0
    THEN \* -length is taken as the count of code units including the NUL
         LET much == length < -(Len(r.data) + 1)
             data == IF much THEN Fail(len.r)
                     ELSE read_bytes(len.r, ((-length) - 1) * 2)
         IN  IF ~data.ok THEN Fail(data.r)
             ELSE LET result == DecodeUtf16LE(data.v)
                      null_term == read_int16(data.r)
                  IN  IF ~result.ok THEN Fail(data.r)
                      ELSE IF ~null_term.ok THEN Fail(null_term.r)
                      ELSE IF null_term.v # <<0, 0>> THEN Fail(null_term.r)
                      ELSE Ok(Some(result.v), null_term.r)
    ELSE LET data == read_bytes(len.r, length - 1)
         IN  IF ~data.ok THEN Fail(data.r)
             ELSE LET result == DecodeAscii(data.v)
                      null_term == read_uint8(data.r)
                  IN  IF ~result.ok THEN Fail(data.r)
                      ELSE IF ~null_term.ok THEN Fail(null_term.r)
                      ELSE IF null_term.v # <<0>> THEN Fail(null_term.r)
                      ELSE Ok(Some(result.v), null_term.r)

(***************************************************************************)
(* zlib.crc32: the IEEE CRC-32, table driven, on little-endian registers.  *)
(***************************************************************************)
Xor4 ==
    LET RECURSIVE X(_, _, _)
        X(a, b, k) == IF k = 0 THEN 0
                      ELSE (IF a % 2 = b % 2 THEN 0 ELSE 1)
                           + 2 * X(a \div 2, b \div 2, k - 1)
    IN  [a \in 0..15 |-> [b \in 0..15 |-> X(a, b, 4)]]

XorByte(a, b) == 16 * Xor4[a \div 16][b \div 16] + Xor4[a % 16][b % 16]
XorBytes(x, y) == [i \in 1..Len(x) |-> XorByte(x[i], y[i])]

\* one right shift of a 32-bit register held as four little-endian bytes
ShiftRight1(c) ==
    <<(c[1] \div 2) + 128 * (c[2] % 2), (c[2] \div 2) + 128 * (c[3] % 2),
      (c[3] \div 2) + 128 * (c[4] % 2), c[4] \div 2>>

CrcTable ==
    LET Poly == <<32, 131, 184, 237>>
        RECURSIVE T(_, _)
        T(c, k) == IF k = 0 THEN c
                   ELSE T(IF c[1] % 2 = 1 THEN XorBytes(ShiftRight1(c), Poly)
                          ELSE ShiftRight1(c), k - 1)
    IN  [n \in 0..255 |-> T(<<n, 0, 0, 0>>, 8)]

CrcStep(c, b) ==
    LET t == CrcTable[XorByte(c[1], b)]
    IN  <<XorByte(c[2], t[1]), XorByte(c[3], t[2]), XorByte(c[4], t[3]), t[4]>>

\* the register after data[lo..hi], starting from c; the left half is
\* evaluated before the right half is entered, which keeps the evaluation
\* depth logarithmic in hi - lo
RECURSIVE CrcFold(_, _, _, _)
CrcFold(c, data, lo, hi) ==
    IF lo > hi THEN c
    ELSE IF lo = hi THEN CrcStep(c, data[lo])
    ELSE LET mid == (lo + hi) \div 2
             left == CrcFold(c, data, lo, mid)
         IN  IF Len(left) = 4 THEN CrcFold(left, data, mid + 1, hi) ELSE left

\* zlib.crc32(data[from:]) & 0xFFFFFFFF, as a u32
ZlibCrc32From(data, from) ==
    XorBytes(CrcFold(<<255, 255, 255, 255>>, data, from + 1, Len(data)),
             <<255, 255, 255, 255>>)

calculate_crc32_whole(data) == ZlibCrc32From(data, 0)

\* calculate_crc32: the CRC of data[4:]
calculate_crc32(data) == ZlibCrc32From(data, 4)

\* struct.pack_into(fmt, data, offset, v) for a value of Len(v) bytes
pack_into(data, offset, v) ==
    SubSeq(data, 1, offset) \o v \o SubSeq(data, offset + Len(v) + 1, Len(data))

\* struct.unpack_from of n bytes at offset
unpack_from(data, offset, n) == SubSeq(data, offset + 1, offset + n)

verify_crc32(data) ==
    LET stored_crc == unpack_from(data, 0, 4)
        calculated_crc == calculate_crc32(data)
    IN  stored_crc = calculated_crc

update_crc32(data) ==
    LET crc == calculate_crc32(data)
    IN  pack_into(data, 0, crc)

(***************************************************************************)
(* The compressed envelope: compression.py.                                *)
(***************************************************************************)
\* 0x222222229E2A83C1 as a little-endian u64
CHUNK_HEADER_MAGIC == <<193, 131, 42, 158, 34, 34, 34, 34>>
CHUNK_MAX_SIZE == 131072
COMPRESSOR_ZLIB == 3
EXPECTED_VERSION == 9

\* a u64 below 2^31 as eight little-endian bytes
U64(n) == U32(n) \o <<0, 0, 0, 0>>
\* the value of a u64; values of 2^31 and more read as 2^31 - 1, which is
\* beyond every buffer length of the model
U64Val(b) ==
    IF b[4] < 128 /\ SubSeq(b, 5, 8) = <<0, 0, 0, 0>>
    THEN U32Val(SubSeq(b, 1, 4)) ELSE 2147483647
SatAdd(a, b) == IF b > 2147483647 - a THEN 2147483647 ELSE a + b

\* a raised exception, by the name of its class, and a returned value
Raise(e) == [ok |-> FALSE, err |-> e, v |-> <<>>]
Return(v) == [ok |-> TRUE, err |-> "", v |-> v]

\* zlib.compress / zlib.decompress, as a framing that is not the identity:
\* the two-byte zlib header, the payload with every byte complemented, and
\* a four-byte check value (the payload length).  decompress raises
\* zlib.error on anything that is not such a stream.
ZlibCompress(x) ==
    <<120, 156>> \o [i \in 1..Len(x) |-> 255 - x[i]] \o U32(Len(x))
ZlibDecompress(s) ==
    IF Len(s) < 6 THEN Raise("zlib.error")
    ELSE IF SubSeq(s, 1, 2) # <<120, 156>> THEN Raise("zlib.error")
    ELSE IF SubSeq(s, Len(s) - 3, Len(s)) # U32(Len(s) - 6) THEN Raise("zlib.error")
    ELSE Return([i \in 1..(Len(s) - 6) |-> 255 - s[i + 2]])

\* struct.unpack_from('<IiI', data, offset)
read_compressed_header(data, offset) ==
    IF Len(data) - offset < 12
    THEN [ok |-> FALSE, crc32 |-> <<>>, decompressed_size |-> <<>>,
          version |-> <<>>, offset |-> offset]
    ELSE [ok |-> TRUE,
          crc32 |-> unpack_from(data, offset, 4),
          decompressed_size |-> unpack_from(data, offset + 4, 4),
          version |-> unpack_from(data, offset + 8, 4),
          offset |-> offset + 12]

\* struct.unpack_from('<QQB', ...) and struct.unpack_from('<QQQQ', ...)
read_chunk_header(data, offset) ==
    IF Len(data) - offset < 49
    THEN [ok |-> FALSE, magic |-> <<>>, chunk_size |-> <<>>, compressor |-> <<>>,
          compressed_size |-> <<>>, decompressed_size |-> <<>>, offset |-> offset]
    ELSE [ok |-> TRUE,
          magic |-> unpack_from(data, offset, 8),
          chunk_size |-> unpack_from(data, offset + 8, 8),
          compressor |-> unpack_from(data, offset + 16, 1),
          compressed_size |-> unpack_from(data, offset + 17, 8),
          decompressed_size |-> unpack_from(data, offset + 25, 8),
          offset |-> offset + 49]

\* the body of the chunk loop of decompress_save, after the chunk header
\* was read: the magic, the compressor, zlib.decompress of the compressed
\* bytes, the length of what it gave
DecompressChunk(data, chunk_header) ==
    IF chunk_header.magic # CHUNK_HEADER_MAGIC
    THEN Raise("ValueError: Invalid chunk magic")
    ELSE IF U8Val(chunk_header.compressor) # COMPRESSOR_ZLIB
    THEN Raise("ValueError: Unknown compressor")
    ELSE LET next == SatAdd(chunk_header.offset, U64Val(chunk_header.compressed_size))
             decompressed == ZlibDecompress(PySlice(data, chunk_header.offset, next))
         IN  IF ~decompressed.ok THEN decompressed
             ELSE IF U64(Len(decompressed.v)) # chunk_header.decompressed_size
                  THEN Raise("ValueError: Decompressed size mismatch")
             ELSE decompressed

\* the chunk loop of decompress_save
RECURSIVE DecompressChunks(_, _, _)
DecompressChunks(data, offset, chunks_data) ==
    IF ~(offset < Len(data)) THEN Return(chunks_data)
    ELSE LET chunk_header == read_chunk_header(data, offset) IN
         IF ~chunk_header.ok THEN Raise("struct.error")
         ELSE LET decompressed == DecompressChunk(data, chunk_header) IN
              IF ~decompressed.ok THEN decompressed
              ELSE DecompressChunks(data,
                       SatAdd(chunk_header.offset, U64Val(chunk_header.compressed_size)),
                       chunks_data \o decompressed.v)

decompress_save(data) ==
    LET header == read_compressed_header(data, 0) IN
    IF ~header.ok THEN Raise("struct.error")
    ELSE LET chunks_data == DecompressChunks(data, header.offset, <<>>) IN
         IF ~chunks_data.ok THEN chunks_data
         ELSE LET output == Zeros(8) \o chunks_data.v IN
              \* pack_into('<i', output, 8, header.version): four bytes at 8,
              \* and a version that is an int32
              IF Len(output) < 12 \/ ~U32Fits(header.version)
              THEN Raise("struct.error")
              ELSE Return(pack_into(pack_into(pack_into(output,
                              0, header.crc32),
                              4, header.decompressed_size),
                              8, header.version))

\* write_chunk_header with the second pair of sizes in the other order
write_chunk_header_crossed(output, offset, compressed_size, decompressed_size) ==
    LET o1 == pack_into(output, offset, CHUNK_HEADER_MAGIC)
        o2 == pack_into(o1, offset + 8, U64(CHUNK_MAX_SIZE))
        o3 == pack_into(o2, offset + 16, U8(COMPRESSOR_ZLIB))
        o4 == pack_into(o3, offset + 17, U64(compressed_size))
        o5 == pack_into(o4, offset + 25, U64(decompressed_size))
        o6 == pack_into(o5, offset + 33, U64(decompressed_size))
        o7 == pack_into(o6, offset + 41, U64(compressed_size))
    IN  [output |-> o7, offset |-> offset + 49]

write_chunk_header(output, offset, compressed_size, decompressed_size) ==
    LET o1 == pack_into(output, offset, CHUNK_HEADER_MAGIC)
        o2 == pack_into(o1, offset + 8, U64(CHUNK_MAX_SIZE))
        o3 == pack_into(o2, offset + 16, U8(COMPRESSOR_ZLIB))
        o4 == pack_into(o3, offset + 17, U64(compressed_size))
        o5 == pack_into(o4, offset + 25, U64(decompressed_size))
        o6 == pack_into(o5, offset + 33, U64(compressed_size))
        o7 == pack_into(o6, offset + 41, U64(decompressed_size))
    IN  [output |-> o7, offset |-> offset + 49]

\* the chunking loop of compress_save: (compressed, len(chunk_data)) pairs
RECURSIVE CompressChunks(_, _)
CompressChunks(data_to_compress, current) ==
    IF ~(current < Len(data_to_compress)) THEN <<>>
    ELSE LET chunk_end == Min(current + CHUNK_MAX_SIZE, Len(data_to_compress))
             chunk_data == PySlice(data_to_compress, current, chunk_end)
         IN  <<[compressed |-> ZlibCompress(chunk_data), size |-> Len(chunk_data)]>>
                 \o CompressChunks(data_to_compress, chunk_end)

RECURSIVE TotalSize(_, _)
TotalSize(chunks, k) ==
    IF k > Len(chunks) THEN 12
    ELSE 49 + Len(chunks[k].compressed) + TotalSize(chunks, k + 1)

\* the writing loop of compress_save
RECURSIVE WriteChunks(_, _, _, _)
WriteChunks(output, offset, chunks, k) ==
    IF k > Len(chunks) THEN output
    ELSE LET h == write_chunk_header(output, offset,
                                     Len(chunks[k].compressed), chunks[k].size)
             o == pack_into(h.output, h.offset, chunks[k].compressed)
         IN  WriteChunks(o, h.offset + Len(chunks[k].compressed), chunks, k + 1)

\* the result of compress_save and, as data, the caller's buffer after the
\* call (data_to_compress = bytearray(data) is a copy)
compress_save(data) ==
    [data |-> data] @@
    IF Len(data) < 12 THEN Raise("struct.error")
    ELSE LET crc32 == unpack_from(data, 0, 4)
             decompressed_size == unpack_from(data, 4, 4)
             version == unpack_from(data, 8, 4)
         IN  \* pack_into('<i', ..., decompressed_size - 12) of less than -2^31
             IF I32Val(decompressed_size) < (-2147483647) + 11
             THEN Raise("struct.error")
             ELSE LET data_to_compress ==
                          pack_into(data, 8, I32(I32Val(decompressed_size) - 12))
                      chunks == CompressChunks(data_to_compress, 8)
                      output == Zeros(TotalSize(chunks, 1))
                      o1 == pack_into(output, 0, crc32)
                      o2 == pack_into(o1, 4, decompressed_size)
                      o3 == pack_into(o2, 8, version)
                  IN  Return(WriteChunks(o3, 12, chunks, 1))

(***************************************************************************)
(* The document: model/parts.py, model/memory.py, model/properties.py,     *)
(* model/uobject.py, model/save_data.py, model/save_file.py.               *)
(*                                                                         *)
(* The strings the dispatch of properties.py compares type names with.     *)
(* The documents of the model use the kinds IntProperty, StrProperty,      *)
(* NameProperty, StructProperty (of type Guid, or a nested PropertyBag)    *)
(* and ArrayProperty (of IntProperty, NameProperty or StructProperty       *)
(* elements); a property of any other type name takes the branch for       *)
(* unknown kinds.                                                          *)
(***************************************************************************)
S_None == <<78, 111, 110, 101>>  \* 'None'
S_IntProperty == <<73, 110, 116, 80, 114, 111, 112, 101, 114, 116, 121>>  \* 'IntProperty'
S_StrProperty == <<83, 116, 114, 80, 114, 111, 112, 101, 114, 116, 121>>  \* 'StrProperty'
S_NameProperty == <<78, 97, 109, 101, 80, 114, 111, 112, 101, 114, 116, 121>>  \* 'NameProperty'
S_StructProperty == <<83, 116, 114, 117, 99, 116, 80, 114, 111, 112, 101, 114, 116, 121>>  \* 'StructProperty'
S_ArrayProperty == <<65, 114, 114, 97, 121, 80, 114, 111, 112, 101, 114, 116, 121>>  \* 'ArrayProperty'
S_Guid == <<71, 117, 105, 100>>  \* 'Guid'
S_MapProperty == <<77, 97, 112, 80, 114, 111, 112, 101, 114, 116, 121>>  \* 'MapProperty'
S_ByteProperty == <<66, 121, 116, 101, 80, 114, 111, 112, 101, 114, 116, 121>>  \* 'ByteProperty'
S_EnumProperty == <<69, 110, 117, 109, 80, 114, 111, 112, 101, 114, 116, 121>>  \* 'EnumProperty'

S_Timespan == <<84, 105, 109, 101, 115, 112, 97, 110>>  \* 'Timespan'
S_DateTime == <<68, 97, 116, 101, 84, 105, 109, 101>>  \* 'DateTime'
\* A statement x = e followed by the rest of a block is written
\* Bind([x \in {e} |-> rest]): e is computed once, before the rest.
Bind(f) == f[CHOOSE x \in DOMAIN f : TRUE]

(***************************************************************************)
(* Python floats (IEEE 754 binary64), as far as timedelta.total_seconds()  *)
(* and a product need them.  A natural number of any size is a sequence    *)
(* of limbs in base LimbBase, least significant first; the model's own     *)
(* integers hold 31 bits.                                                  *)
(***************************************************************************)
LimbBase == 1024
LimbBits == 10
MantissaBits == 53
Pow2 == <<1, 2, 4, 8, 16, 32, 64, 128, 256, 512>>

RECURSIVE BigStrip(_)
BigStrip(a) ==
    IF Len(a) > 0 /\ a[Len(a)] = 0 THEN BigStrip(SubSeq(a, 1, Len(a) - 1)) ELSE a

RECURSIVE BigOf(_)
BigOf(n) == IF n = 0 THEN <<>> ELSE <<n % LimbBase>> \o BigOf(n \div LimbBase)

\* the value of a number that fits the model's integers
RECURSIVE BigVal(_)
BigVal(a) == IF Len(a) = 0 THEN 0 ELSE a[1] + LimbBase * BigVal(Tail(a))

\* a + b
RECURSIVE BigAddFrom(_, _, _, _)
BigAddFrom(a, b, k, carry) ==
    IF k > Len(a) /\ k > Len(b) THEN BigOf(carry)
    ELSE Bind([t \in {(IF k <= Len(a) THEN a[k] ELSE 0)
                      + (IF k <= Len(b) THEN b[k] ELSE 0) + carry} |->
         <<t % LimbBase>> \o BigAddFrom(a, b, k + 1, t \div LimbBase)])
BigAdd(a, b) == BigStrip(BigAddFrom(a, b, 1, 0))

\* a * c for 0 <= c <= 2^20
RECURSIVE BigMulFrom(_, _, _, _)
BigMulFrom(a, c, k, carry) ==
    IF k > Len(a) THEN BigOf(carry)
    ELSE Bind([t \in {a[k] * c + carry} |->
         <<t % LimbBase>> \o BigMulFrom(a, c, k + 1, t \div LimbBase)])
BigMulSmall(a, c) == BigStrip(BigMulFrom(a, c, 1, 0))
\* a * c for 0 <= c < 2^30
BigMul(a, c) ==
    BigAdd(<<0>> \o BigMulSmall(a, c \div LimbBase), BigMulSmall(a, c % LimbBase))

\* divmod(a, d) for 0 < d <= 2^20, from the most significant limb down
RECURSIVE BigDivFrom(_, _, _, _, _)
BigDivFrom(a, d, k, rem, q) ==
    IF k = 0 THEN [q |-> BigStrip(q), rem |-> rem]
    ELSE Bind([t \in {rem * LimbBase + a[k]} |->
         BigDivFrom(a, d, k - 1, t % d, <<t \div d>> \o q)])
BigDivMod(a, d) == BigDivFrom(a, d, Len(a), 0, <<>>)

BigShl(a, k) ==
    IF Len(a) = 0 THEN a
    ELSE [i \in 1..(k \div LimbBits) |-> 0] \o BigMulSmall(a, Pow2[(k % LimbBits) + 1])
BigShr(a, k) ==
    BigDivMod(SubSeq(a, (k \div LimbBits) + 1, Len(a)), Pow2[(k % LimbBits) + 1]).q

\* int.bit_length()
BigBitLength(a) ==
    IF Len(a) = 0 THEN 0
    ELSE (Len(a) - 1) * LimbBits + Cardinality({j \in 1..LimbBits : Pow2[j] <= a[Len(a)]})

\* the float nearest to n + f, where 0 <= f < 1 and sticky tells f # 0, ties
\* to even: [m, e] is the float m * 2^e
RoundToFloat(n, sticky) ==
    Bind([s \in {BigBitLength(n) - MantissaBits} |->
    IF s <= 0 THEN [m |-> n, e |-> 0]
    ELSE Bind([n1 \in {BigShr(n, s - 1)} |->
         Bind([half \in {BigDivMod(n1, 2)} |->
              [m |-> IF half.rem = 1
                        /\ (sticky \/ BigShl(n1, s - 1) # n
                            \/ BigDivMod(half.q, 2).rem = 1)
                     THEN BigAdd(half.q, <<1>>) ELSE half.q,
               e |-> s]])])])

\* the bits kept below the point of a quotient before it is rounded
FloatGuard == 80

\* the float n / d of two ints, 0 <= n and 0 < d <= 2^20 (int.__truediv__
\* rounds the exact quotient once)
FloatDiv(n, d) ==
    IF n = 0 THEN [m |-> <<>>, e |-> 0]
    ELSE Bind([dm \in {BigDivMod(BigShl(BigOf(n), FloatGuard), d)} |->
         Bind([f \in {RoundToFloat(dm.q, dm.rem # 0)} |->
              [m |-> f.m, e |-> f.e - FloatGuard]])])

\* the float x * c for an int 0 <= c < 2^30 that a float holds exactly
FloatMul(x, c) ==
    Bind([f \in {RoundToFloat(BigMul(x.m, c), FALSE)} |-> [m |-> f.m, e |-> f.e + x.e]])

\* int(x) of a float x >= 0
FloatTrunc(x) ==
    IF x.e >= 0 THEN BigVal(BigShl(x.m, x.e)) ELSE BigVal(BigShr(x.m, -x.e))

(***************************************************************************)
(* datetime.timedelta and datetime.datetime: a timedelta is its count of   *)
(* microseconds, a datetime the count of microseconds since 0001-01-01,    *)
(* the least datetime there is.                                            *)
(***************************************************************************)
MicrosPerSecond == 1000000
TicksPerSecond == 10000000

timedelta(microseconds) == [microseconds |-> microseconds]
datetime_1_1_1 == [since_min |-> 0]

\* datetime + timedelta: OverflowError below datetime.min
datetime_add(d, delta) ==
    IF d.since_min + delta.microseconds < 0 THEN [ok |-> FALSE, v |-> <<>>]
    ELSE [ok |-> TRUE, v |-> [since_min |-> d.since_min + delta.microseconds]]

\* datetime - datetime
datetime_sub(a, b) == timedelta(a.since_min - b.since_min)

\* timedelta.total_seconds(): the float ((days * 86400 + seconds) * 10**6 +
\* microseconds) / 10**6, as its sign and its magnitude
total_seconds(delta) ==
    [negative |-> delta.microseconds < 0,
     abs |-> FloatDiv(IF delta.microseconds < 0 THEN -delta.microseconds
                      ELSE delta.microseconds, MicrosPerSecond)]

\* int(x * c): the product is rounded to a float, int() drops its fraction
int_of_product(x, c) ==
    Bind([n \in {FloatTrunc(FloatMul(x.abs, c))} |-> IF x.negative THEN -n ELSE n])

\* struct.pack('<q', n) and struct.unpack('<q') for -2^31 <= n < 2^31, the
\* range of the model's integers
I64Signed(n) == I32(n) \o (IF n < 0 THEN <<255, 255, 255, 255>> ELSE <<0, 0, 0, 0>>)
I64SignedVal(b) == I32Val(SubSeq(b, 1, 4))

\* SerializationContext with a name cache that starts empty
SerializationContext_no_cache(names_table, class_path) ==
    [names_table |-> names_table,
     class_path |-> class_path,
     name_to_index |-> [nm \in {} |-> 0]]

\* SerializationContext.__post_init__: the name cache maps a name to its
\* last index in the table
SerializationContext(names_table, class_path) ==
    [names_table |-> names_table,
     class_path |-> class_path,
     name_to_index |->
        [nm \in {names_table[i] : i \in 1..Len(names_table)} |->
            (CHOOSE i \in 1..Len(names_table) :
                /\ names_table[i] = nm
                /\ \A j \in (i + 1)..Len(names_table) : names_table[j] # nm) - 1]]

\* get_or_add_name without the lookup in the cache: every call appends
get_or_add_name_append(ctx, name) ==
    [ctx |-> [ctx EXCEPT !.names_table = Append(@, name),
                         !.name_to_index = (name :> Len(ctx.names_table)) @@ @],
     index |-> Len(ctx.names_table)]

\* the context after the call, and the index returned
get_or_add_name(ctx, name) ==
    IF name \in DOMAIN ctx.name_to_index
    THEN [ctx |-> ctx, index |-> ctx.name_to_index[name]]
    ELSE [ctx |-> [ctx EXCEPT !.names_table = Append(@, name),
                              !.name_to_index = (name :> Len(ctx.names_table)) @@ @],
          index |-> Len(ctx.names_table)]

\* The state of one SaveData.write: the Writer, the SerializationContext,
\* and the record of what the calls made so far did:
\*   sized    each Property.write of a StructProperty, an ArrayProperty or a
\*            MapProperty: where the size field is, where the value starts
\*            and ends, and the size the Property held
\*   calls    each ctx.get_or_add_name(name): the index returned, the length
\*            of the names table before and after, and whether the table
\*            before is a prefix of the table after
\*   fnames   each FName.write: where it wrote, the name and the index the
\*            FName held, the slot of the table at that index before the
\*            call, the index written, the number of get_or_add_name calls
\*            made up to the end of this one, the slot at the index written
\*            after the call and whether an existing slot changed
\*   headers  each UObject.write_header: was_loaded, and whether the path
\*            was written
NewStream(w, ctx) ==
    [w |-> w, ctx |-> ctx, sized |-> <<>>, calls |-> <<>>, fnames |-> <<>>,
     headers |-> <<>>]
Put(st, data) == [st EXCEPT !.w = write_bytes(@, data)]
Seek(st, pos) == [st EXCEPT !.w = SetWriterPosition(@, pos)]

FName(name, index, number) == [name |-> name, index |-> index, number |-> number]

\* whether every slot of the table before holds the same name in the table after
SlotsKept(before, after) ==
    /\ Len(before) <= Len(after)
    /\ \A i \in 1..Len(before) : after[i] = before[i]

\* index = ctx.get_or_add_name(name) in a SaveData.write: the state after
\* the call and the index
GetOrAddName(st, name) ==
    Bind([g \in {get_or_add_name(st.ctx, name)} |->
        [st |-> [st EXCEPT !.ctx = g.ctx,
                           !.calls = Append(@,
                               [name |-> name, index |-> g.index,
                                before |-> Len(st.ctx.names_table),
                                after |-> Len(g.ctx.names_table),
                                kept |-> SlotsKept(st.ctx.names_table,
                                                   g.ctx.names_table)])],
         index |-> g.index]])

\* the optional slot of a names table at an index
SlotAt(names_table, index) ==
    IF index < Len(names_table) THEN Some(names_table[index + 1]) ELSE NONE

\* what one FName.write did, for the record fnames: st is the state before
\* the call and g the state and the index after the lookup
Written(st, self, g) ==
    [pos |-> st.w.pos, name |-> self.name, stored |-> self.index,
     slot |-> SlotAt(st.ctx.names_table, self.index), index |-> g.index,
     calls |-> Len(g.st.calls), at |-> SlotAt(g.st.ctx.names_table, g.index),
     kept |-> SlotsKept(st.ctx.names_table, g.st.ctx.names_table)]

\* the bytes FName.write writes for an index
EmitFName(st, self, index) ==
    \* raw_index |= 0x8000
    LET raw_index == IF IsNone(self.number) \/ index >= 32768
                     THEN index ELSE index + 32768
    IN  [st EXCEPT !.w = IF IsNone(self.number)
                         THEN write_uint16(@, U16(raw_index))
                         ELSE write_int32(write_uint16(@, U16(raw_index)),
                                          self.number[1])]

\* FName.write that uses the index the FName holds whenever it is inside
\* the table, whatever the slot holds
FName_write_stored(st, self) ==
    Bind([g \in {IF self.index < Len(st.ctx.names_table)
                 THEN [st |-> st, index |-> self.index]
                 ELSE GetOrAddName(st, self.name)} |->
        [EmitFName(g.st, self, g.index)
         EXCEPT !.fnames = Append(@, Written(st, self, g))]])

FName_write(st, self) ==
    Bind([g \in {IF /\ self.index < Len(st.ctx.names_table)
                    /\ st.ctx.names_table[self.index + 1] = self.name
                 THEN [st |-> st, index |-> self.index]
                 ELSE GetOrAddName(st, self.name)} |->
        [EmitFName(g.st, self, g.index)
         EXCEPT !.fnames = Append(@, Written(st, self, g))]])

FGuid_write(st, self) == Put(Put(Put(Put(st, self.a), self.b), self.c), self.d)

\* adjust_size_for_write without the adjustment
adjust_size_for_write_none(type_name, actual_size) == actual_size

adjust_size_for_write(type_name, actual_size) ==
    IF type_name = S_StructProperty THEN actual_size - 19
    ELSE IF type_name = S_ArrayProperty THEN actual_size - 3
    ELSE IF type_name = S_MapProperty THEN actual_size - 9
    ELSE IF type_name = S_ByteProperty THEN actual_size - 3
    ELSE IF type_name = S_EnumProperty THEN actual_size - 3
    ELSE actual_size

RECURSIVE Property_write(_, _)
RECURSIVE PropertyBag_write(_, _)
RECURSIVE write_property_value(_, _, _, _)
RECURSIVE write_struct_value(_, _, _)

\* the loop of PropertyBag.write over self.properties[k..]
RECURSIVE WriteProperties(_, _, _)
WriteProperties(st, properties, k) ==
    IF k > Len(properties) THEN st
    ELSE Bind([s1 \in {Property_write(st, properties[k])} |->
             WriteProperties(s1, properties, k + 1)])

PropertyBag_write(st, self) ==
    Bind([s1 \in {WriteProperties(st, self.properties, 1)} |->
    Bind([g \in {GetOrAddName(s1, S_None)} |->
        FName_write(g.st, FName(S_None, g.index, NONE))])])

StructProperty_write(st, self) ==
    Bind([s1 \in {FName_write(st, self.type_name)} |->
    Bind([s3 \in {Put(FGuid_write(s1, self.guid), U8(self.unknown))} |->
        write_struct_value(s3, self.type_name.name, self.value)])])

write_struct_value(st, type_name, value) ==
    IF type_name = S_Timespan
    THEN Bind([ticks \in {int_of_product(total_seconds(value), TicksPerSecond)} |->
         [st EXCEPT !.w = write_int64(@, I64Signed(ticks))]])
    ELSE IF type_name = S_Guid THEN FGuid_write(st, value)
    ELSE IF type_name = S_DateTime
    THEN Bind([delta \in {datetime_sub(value, datetime_1_1_1)} |->
         Bind([ticks \in {int_of_product(total_seconds(delta), TicksPerSecond)} |->
         [st EXCEPT !.w = write_int64(@, I64Signed(ticks))]])])
    ELSE PropertyBag_write(st, value)

write_array_element_raw(st, type_name, value) ==
    IF type_name = S_IntProperty THEN Put(st, value)
    ELSE IF type_name = S_StrProperty THEN [st EXCEPT !.w = write_fstring(@, value)]
    ELSE IF type_name = S_NameProperty THEN FName_write(st, value)
    ELSE IF type_name = S_StructProperty THEN FGuid_write(st, value)
    ELSE st

\* the loops over self.items[k..]
RECURSIVE WriteArrayItems(_, _, _, _)
WriteArrayItems(st, type_name, items, k) ==
    IF k > Len(items) THEN st
    ELSE Bind([s1 \in {write_array_element_raw(st, type_name, items[k])} |->
             WriteArrayItems(s1, type_name, items, k + 1)])

RECURSIVE WriteStructItems(_, _, _, _)
WriteStructItems(st, type_name, items, k) ==
    IF k > Len(items) THEN st
    ELSE Bind([s1 \in {write_struct_value(st, type_name, items[k])} |->
             WriteStructItems(s1, type_name, items, k + 1)])

\* for key, value in self.entries: write_map_element(key), write_map_element(value)
RECURSIVE WriteMapEntries(_, _, _, _, _)
WriteMapEntries(st, key_type, value_type, entries, k) ==
    IF k > Len(entries) THEN st
    ELSE Bind([s1 \in {write_array_element_raw(st, key_type, entries[k].key)} |->
         Bind([s2 \in {write_array_element_raw(s1, value_type, entries[k].value)} |->
             WriteMapEntries(s2, key_type, value_type, entries, k + 1)])])

MapProperty_write(st, self) ==
    Bind([s1 \in {FName_write(st, self.key_type)} |->
    Bind([s2 \in {FName_write(s1, self.value_type)} |->
    Bind([s4 \in {Put(Put(s2, self.unknown), I32(Len(self.entries)))} |->
        WriteMapEntries(s4, self.key_type.name, self.value_type.name,
                        self.entries, 1)])])])

ArrayProperty_write(st, self) ==
    Bind([s1 \in {FName_write(st, self.element_type)} |->
    Bind([s3 \in {Put(Put(s1, U8(self.unknown)), I32(Len(self.items)))} |->
        WriteArrayItems(s3, self.element_type.name, self.items, 1)])])

\* ArrayStructProperty.write with the elements size left as it was read
ArrayStructProperty_write_held(st, self) ==
    Bind([s1 \in {FName_write(st, self.outer_element_type)} |->
    Bind([s5 \in {Put(Put(Put(Put(s1, U8(self.unknown)), I32(Len(self.items))),
                          self.name_index), self.type_index)} |->
    Bind([s7 \in {Put(Put(s5, self.size), self.index)} |->
    Bind([s8 \in {FName_write(s7, self.element_type)} |->
    Bind([s10 \in {Put(FGuid_write(s8, self.guid), U8(self.unknown2))} |->
        WriteStructItems(s10, self.element_type.name, self.items, 1)])])])])])

ArrayStructProperty_write(st, self) ==
    Bind([s1 \in {FName_write(st, self.outer_element_type)} |->
    Bind([s5 \in {Put(Put(Put(Put(s1, U8(self.unknown)), I32(Len(self.items))),
                          self.name_index), self.type_index)} |->
    Bind([s7 \in {Put(Put(s5, U32(0)), self.index)} |->
    Bind([s8 \in {FName_write(s7, self.element_type)} |->
    Bind([s10 \in {Put(FGuid_write(s8, self.guid), U8(self.unknown2))} |->
    Bind([s11 \in {WriteStructItems(s10, self.element_type.name, self.items, 1)} |->
        LET size_pos == s5.w.pos
            start_pos == s10.w.pos
            end_pos == s11.w.pos
            actual_size == end_pos - start_pos
        IN  Seek(Put(Seek(s11, size_pos), U32(actual_size)), end_pos)])])])])])])

\* write_property_value without its last branch: a kind it does not know
\* writes nothing
write_property_value_known(st, type_name, value, no_raw) ==
    IF type_name = S_IntProperty THEN Put(Put(st, U8(no_raw)), value)
    ELSE IF type_name = S_StrProperty
         THEN [st EXCEPT !.w = write_fstring(write_uint8(@, U8(no_raw)), value)]
    ELSE IF type_name = S_NameProperty
         THEN Bind([s1 \in {Put(st, U8(no_raw))} |-> FName_write(s1, value)])
    ELSE IF type_name = S_StructProperty THEN StructProperty_write(st, value)
    ELSE IF type_name = S_ArrayProperty
         THEN IF value.cls = "ArrayStructProperty"
              THEN ArrayStructProperty_write(st, value)
              ELSE ArrayProperty_write(st, value)
    ELSE IF type_name = S_MapProperty THEN MapProperty_write(st, value)
    ELSE st

write_property_value(st, type_name, value, no_raw) ==
    IF type_name = S_IntProperty THEN Put(Put(st, U8(no_raw)), value)
    ELSE IF type_name = S_StrProperty
         THEN [st EXCEPT !.w = write_fstring(write_uint8(@, U8(no_raw)), value)]
    ELSE IF type_name = S_NameProperty
         THEN Bind([s1 \in {Put(st, U8(no_raw))} |-> FName_write(s1, value)])
    ELSE IF type_name = S_StructProperty THEN StructProperty_write(st, value)
    ELSE IF type_name = S_ArrayProperty
         THEN IF value.cls = "ArrayStructProperty"
              THEN ArrayStructProperty_write(st, value)
              ELSE ArrayProperty_write(st, value)
    ELSE IF type_name = S_MapProperty THEN MapProperty_write(st, value)
    ELSE Put(Put(st, U8(no_raw)), value)

\* what Property.write did for one property, for the record sized
Sized(self, size_pos, start_pos, end_pos) ==
    [type_name |-> self.type_name.name, size_pos |-> size_pos,
     start_pos |-> start_pos, end_pos |-> end_pos, held |-> self.size]

\* Property.write; for a StructProperty or ArrayProperty the size is patched
Property_write(st, self) ==
    Bind([s1 \in {FName_write(st, self.name)} |->
    IF self.name.name = S_None THEN s1 ELSE
    Bind([s2 \in {FName_write(s1, self.type_name)} |->
    Bind([s4 \in {Put(Put(s2, self.size), self.index)} |->
    Bind([s5 \in {write_property_value(s4, self.type_name.name, self.value,
                                       self.no_raw)} |->
        LET size_pos == s2.w.pos
            start_pos == s4.w.pos
            end_pos == s5.w.pos
            actual_size == end_pos - start_pos
        IN  IF self.type_name.name \in {S_StructProperty, S_ArrayProperty}
            THEN [Seek(Put(Seek(s5, size_pos),
                           U32(adjust_size_for_write(self.type_name.name, actual_size))),
                       end_pos)
                  EXCEPT !.sized = Append(@, Sized(self, size_pos, start_pos, end_pos))]
            ELSE IF self.type_name.name = S_MapProperty
            THEN [s5 EXCEPT !.sized = Append(@, Sized(self, size_pos, start_pos, end_pos))]
            ELSE s5])])])])

UObjectLoadedData_write(st, self) ==
    Bind([s1 \in {FName_write(st, self.name)} |-> Put(s1, self.outer_id)])

\* Component.write that leaves the extra data out
Component_write_payload_only(st, self) ==
    Bind([s1 \in {[st EXCEPT !.w = write_fstring(@, Some(self.component_key))]} |->
    Bind([s2 \in {Put(s1, I32(0))} |->
    Bind([s3 \in {IF ~IsNone(self.properties)
                  THEN PropertyBag_write(s2, self.properties[1]) ELSE s2} |->
        LET length_pos == s1.w.pos
            start == s2.w.pos
            end == s3.w.pos
        IN  Seek(Put(Seek(s3, length_pos), I32(end - start)), end)])])])

Component_write(st, self) ==
    Bind([s1 \in {[st EXCEPT !.w = write_fstring(@, Some(self.component_key))]} |->
    Bind([s2 \in {Put(s1, I32(0))} |->
    Bind([s3 \in {IF ~IsNone(self.properties)
                  THEN PropertyBag_write(s2, self.properties[1]) ELSE s2} |->
    Bind([s4 \in {IF ~IsNone(self.extra_data)
                  THEN Put(s3, self.extra_data[1]) ELSE s3} |->
        LET length_pos == s1.w.pos
            start == s2.w.pos
            end == s4.w.pos
        IN  Seek(Put(Seek(s4, length_pos), I32(end - start)), end)])])])])

RECURSIVE WriteComponents(_, _, _)
WriteComponents(st, components, k) ==
    IF k > Len(components) THEN st
    ELSE Bind([s1 \in {Component_write(st, components[k])} |->
             WriteComponents(s1, components, k + 1)])

UObject_write_header(st, self) ==
    Bind([s1 \in {Put(st, U8(self.was_loaded))} |->
    Bind([s2 \in {IF self.was_loaded = 0 \/ I32Val(self.object_index) # 0
                     \/ IsNone(st.ctx.class_path)
                  THEN [s1 EXCEPT !.w = write_fstring(@, self.object_path)]
                  ELSE s1} |->
    Bind([s3 \in {[s2 EXCEPT !.headers = Append(@,
                       [was_loaded |-> self.was_loaded,
                        inline |-> s2.w.pos # s1.w.pos])]} |->
        IF self.was_loaded = 0 /\ ~IsNone(self.loaded_data)
        THEN UObjectLoadedData_write(s3, self.loaded_data[1])
        ELSE s3])])])

\* the properties of UObject.write_data, with the patch of their length
WriteObjectProperties(s2, self, length_pos) ==
    Bind([p1 \in {PropertyBag_write(s2, self.properties[1])} |->
    Bind([p2 \in {IF ~IsNone(self.extra_properties_data)
                  THEN Put(p1, self.extra_properties_data[1]) ELSE p1} |->
        LET start == s2.w.pos
            end == p2.w.pos
        IN  Seek(Put(Seek(p2, length_pos), U32(end - start)), end)])])

UObject_write_data(st, self) ==
    Bind([s1 \in {Put(st, self.object_index)} |->
    Bind([s2 \in {Put(s1, U32(0))} |->
    Bind([s3 \in {IF ~IsNone(self.properties)
                  THEN WriteObjectProperties(s2, self, s1.w.pos) ELSE s2} |->
    Bind([s4 \in {Put(s3, U8(self.is_actor))} |->
        IF self.is_actor # 0 /\ ~IsNone(self.components)
        THEN Bind([s5 \in {Put(s4, U32(Len(self.components[1])))} |->
                 WriteComponents(s5, self.components[1], 1)])
        ELSE s4])])])])

RECURSIVE WriteObjectsData(_, _, _)
WriteObjectsData(st, objects, k) ==
    IF k > Len(objects) THEN st
    ELSE Bind([s1 \in {UObject_write_data(st, objects[k])} |->
             WriteObjectsData(s1, objects, k + 1)])

RECURSIVE WriteObjectsHeaders(_, _, _)
WriteObjectsHeaders(st, objects, k) ==
    IF k > Len(objects) THEN st
    ELSE Bind([s1 \in {UObject_write_header(st, objects[k])} |->
             WriteObjectsHeaders(s1, objects, k + 1)])

RECURSIVE WriteNames(_, _, _)
WriteNames(w, names_table, k) ==
    IF k > Len(names_table) THEN w
    ELSE Bind([w1 \in {write_fstring(w, Some(names_table[k]))} |->
             WriteNames(w1, names_table, k + 1)])

\* an int64 below 2^31
I64(n) == U32(n) \o <<0, 0, 0, 0>>

OffsetInfo_write(w, self) ==
    write_int64(write_uint32(write_int64(w, self.names), self.version), self.objects)

PackageVersion_write(w, self) ==
    write_int32(write_int32(w, self.ue_version), self.ue_licensee_version)

FTopLevelAssetPath_write(w, self) ==
    write_fstring(write_fstring(w, self.package_name), self.asset_name)

\* FTopLevelAssetPath.path
AssetPath(save_game_class_path) ==
    IF IsNone(save_game_class_path) THEN NONE ELSE save_game_class_path[1].package_name

\* the patch of SaveData.write without writer.position = end_position
PatchOffsetInfo_unrestored(w, offset_position, oi, end_position) ==
    OffsetInfo_write(SetWriterPosition(w, offset_position), oi)

\* writer.position = offset_position; oi.write(writer);
\* writer.position = end_position
PatchOffsetInfo(w, offset_position, oi, end_position) ==
    SetWriterPosition(OffsetInfo_write(SetWriterPosition(w, offset_position), oi),
                      end_position)

\* the names table written by a SaveData.write that takes the table the
\* SaveData held before the write
WrittenNames_held(self, ctx) == self.names_table

\* for name in ctx.names_table: the names SaveData.write writes
WrittenNames(self, ctx) == ctx.names_table

\* whether two buffers have the same length and the same bytes outside
\* [pos, pos + n)
SameOutside(a, b, pos, n) ==
    /\ Len(a) = Len(b)
    /\ \A i \in 1..Len(a) : (i <= pos \/ i > pos + n) => a[i] = b[i]

\* what SaveData.write did, for the record layout: the positions it took
\* (w2 is the writer before the placeholder, o1, n1 and w4 the writers before
\* the objects table, before the names table and after it, w5 the writer
\* returned), and whether the patch left every byte outside the OffsetInfo
\* as it was
Layout(w, w2, w3, o1, n1, w4, w5) ==
    [start |-> w.pos, offset_position |-> w2.pos, data_position |-> w3.pos,
     objects_offset |-> o1.pos, names_offset |-> n1.pos, end_position |-> w4.pos,
     position |-> w5.pos, size |-> Len(w5.buf),
     outside |-> SameOutside(w4.buf, w5.buf, w2.pos, w3.pos - w2.pos)]

\* SaveData.write: the writer after the call, the record of what the write
\* did and the SaveData after it (self.names_table = ctx.names_table)
SaveData_write(w, self) ==
    Bind([w1 \in {IF ~IsNone(self.package_version)
                  THEN PackageVersion_write(w, self.package_version[1]) ELSE w} |->
    Bind([w2 \in {IF ~IsNone(self.save_game_class_path)
                  THEN FTopLevelAssetPath_write(w1, self.save_game_class_path[1])
                  ELSE w1} |->
    Bind([w3 \in {OffsetInfo_write(w2, [names |-> I64(0), version |-> self.version,
                                        objects |-> I64(0)])} |->
    Bind([ctx \in {SerializationContext(self.names_table,
                                        AssetPath(self.save_game_class_path))} |->
    Bind([s1 \in {WriteObjectsData(NewStream(w3, ctx), self.objects, 1)} |->
    Bind([h1 \in {Put(s1, I32(Len(self.objects)))} |->
    Bind([s2 \in {WriteObjectsHeaders(h1, self.objects, 1)} |->
    Bind([n1 \in {write_int32(s2.w, I32(Len(WrittenNames(self, s2.ctx))))} |->
    Bind([w4 \in {WriteNames(n1, WrittenNames(self, s2.ctx), 1)} |->
    Bind([w5 \in {LET offset_position == w2.pos
                      objects_offset == s1.w.pos
                      names_offset == s2.w.pos
                      end_position == w4.pos
                  IN  PatchOffsetInfo(w4, offset_position,
                                      [names |-> I64(names_offset),
                                       version |-> self.version,
                                       objects |-> I64(objects_offset)],
                                      end_position)} |->
        [w |-> w5,
         sized |-> s2.sized,
         log |-> [calls |-> s2.calls, fnames |-> s2.fnames, headers |-> s2.headers,
                  layout |-> Layout(w, w2, w3, s1.w, s2.w, w4, w5)],
         self |-> [self EXCEPT !.names_table = s2.ctx.names_table]]])])])])])])])])])])

FileHeader_write(w, self) ==
    write_int32(write_int32(write_int32(write_uint32(w, self.crc32),
        self.decompressed_size), self.version), self.build_number)

\* the writer of to_decompressed after the placeholder FileHeader and the
\* bytes before the SaveData
PlaceholderWritten(self) ==
    write_bytes(FileHeader_write(NewWriter,
                    [crc32 |-> U32(0), decompressed_size |-> I32(0),
                     version |-> self.file_header.version,
                     build_number |-> self.file_header.build_number]),
                self.pre_save_data)

\* to_decompressed with the two patches in the other order: the checksum
\* first, then the size
to_decompressed_crc_first(self) ==
    Bind([sd \in {SaveData_write(PlaceholderWritten(self), self.save_data)} |->
    Bind([d1 \in {pack_into(to_bytes(sd.w), 0, calculate_crc32(to_bytes(sd.w)))} |->
        [data |-> pack_into(d1, 4, I32(Len(d1))),
         self |-> [self EXCEPT !.save_data = sd.self],
         sized |-> sd.sized, log |-> sd.log]])])

\* SaveFile.to_decompressed: the bytes returned, the SaveFile after the call,
\* and the record of the sized properties written
to_decompressed(self) ==
    Bind([sd \in {SaveData_write(PlaceholderWritten(self), self.save_data)} |->
    Bind([d1 \in {pack_into(to_bytes(sd.w), 4, I32(Len(to_bytes(sd.w))))} |->
        [data |-> pack_into(d1, 0, calculate_crc32(d1)),
         self |-> [self EXCEPT !.save_data = sd.self],
         sized |-> sd.sized, log |-> sd.log]])])

\* replace_name that replaces the last slot that holds old_name
replace_name_last(self, old_name, new_name) ==
    LET names_table == self.save_data.names_table IN
    IF \E i \in 1..Len(names_table) : names_table[i] = old_name
    THEN LET idx == CHOOSE i \in 1..Len(names_table) :
                        /\ names_table[i] = old_name
                        /\ \A j \in (i + 1)..Len(names_table) : names_table[j] # old_name
         IN  [self |-> [self EXCEPT !.save_data.names_table[idx] = new_name],
              ret |-> TRUE]
    ELSE [self |-> self, ret |-> FALSE]

\* SaveFile.replace_name: the SaveFile after the call and the value returned
replace_name(self, old_name, new_name) ==
    LET names_table == self.save_data.names_table IN
    IF \E i \in 1..Len(names_table) : names_table[i] = old_name
    THEN LET idx == CHOOSE i \in 1..Len(names_table) :
                        /\ names_table[i] = old_name
                        /\ \A j \in 1..(i - 1) : names_table[j] # old_name
         IN  [self |-> [self EXCEPT !.save_data.names_table[idx] = new_name],
              ret |-> TRUE]
    ELSE [self |-> self, ret |-> FALSE]
\* the value of an int64 or uint64 that is inside 0 .. 2^31 - 1, and -1
\* for every other one (a position no buffer of the model has)
I64Val(b) ==
    IF b[4] < 128 /\ SubSeq(b, 5, 8) = <<0, 0, 0, 0>> THEN U32Val(SubSeq(b, 1, 4))
    ELSE -1

FName_read(r, names_table) ==
    Bind([raw_index \in {read_uint16(r)} |->
    IF ~raw_index.ok THEN Fail(raw_index.r)
    ELSE LET has_number == U16Val(raw_index.v) >= 32768
             index == U16Val(raw_index.v) % 32768
         IN
    IF index >= Len(names_table) THEN Fail(raw_index.r)
    ELSE IF ~has_number THEN Ok(FName(names_table[index + 1], index, NONE), raw_index.r)
    ELSE Bind([number \in {read_int32(raw_index.r)} |->
         IF ~number.ok THEN Fail(number.r)
         ELSE Ok(FName(names_table[index + 1], index, Some(number.v)), number.r)])])

FGuid_read(r) ==
    Bind([a \in {read_uint32(r)} |->
    IF ~a.ok THEN Fail(r) ELSE
    Bind([b \in {read_uint32(a.r)} |->
    IF ~b.ok THEN Fail(r) ELSE
    Bind([c \in {read_uint32(b.r)} |->
    IF ~c.ok THEN Fail(r) ELSE
    Bind([d \in {read_uint32(c.r)} |->
    IF ~d.ok THEN Fail(r)
    ELSE Ok([a |-> a.v, b |-> b.v, c |-> c.v, d |-> d.v], d.r)])])])])

RECURSIVE Property_read(_, _)
RECURSIVE PropertyBag_read(_, _)
RECURSIVE read_property_value(_, _, _, _)
RECURSIVE read_struct_value(_, _, _)

\* the loop of PropertyBag.read
RECURSIVE ReadProperties(_, _, _)
ReadProperties(r, ctx, properties) ==
    Bind([prop \in {Property_read(r, ctx)} |->
    IF ~prop.ok THEN Fail(prop.r)
    ELSE IF prop.v.name.name = S_None THEN Ok([properties |-> properties], prop.r)
    ELSE ReadProperties(prop.r, ctx, Append(properties, prop.v))])

PropertyBag_read(r, ctx) == ReadProperties(r, ctx, <<>>)

StructProperty_read(r, ctx) ==
    Bind([type_name \in {FName_read(r, ctx.names_table)} |->
    IF ~type_name.ok THEN Fail(type_name.r) ELSE
    Bind([guid \in {FGuid_read(type_name.r)} |->
    IF ~guid.ok THEN Fail(guid.r) ELSE
    Bind([unknown \in {read_uint8(guid.r)} |->
    IF ~unknown.ok THEN Fail(unknown.r) ELSE
    Bind([value \in {read_struct_value(unknown.r, ctx, type_name.v.name)} |->
    IF ~value.ok THEN Fail(value.r)
    ELSE Ok([type_name |-> type_name.v, guid |-> guid.v,
             unknown |-> U8Val(unknown.v), value |-> value.v], value.r)])])])])

read_struct_value(r, ctx, type_name) ==
    IF type_name = S_Timespan
    THEN Bind([ticks \in {read_int64(r)} |->
         IF ~ticks.ok THEN Fail(ticks.r)
         ELSE Ok(timedelta(I64SignedVal(ticks.v) \div 10), ticks.r)])
    ELSE IF type_name = S_Guid THEN FGuid_read(r)
    ELSE IF type_name = S_DateTime
    THEN Bind([ticks \in {read_int64(r)} |->
         IF ~ticks.ok THEN Fail(ticks.r)
         ELSE Bind([value \in {datetime_add(datetime_1_1_1,
                                            timedelta(I64SignedVal(ticks.v) \div 10))} |->
              IF ~value.ok THEN Fail(ticks.r) ELSE Ok(value.v, ticks.r)])])
    ELSE PropertyBag_read(r, ctx)

read_array_element_raw(r, ctx, type_name) ==
    IF type_name = S_IntProperty THEN read_int32(r)
    ELSE IF type_name = S_StrProperty THEN read_fstring(r)
    ELSE IF type_name = S_NameProperty THEN FName_read(r, ctx.names_table)
    ELSE IF type_name = S_StructProperty THEN FGuid_read(r)
    ELSE Ok(NONE, r)

\* for _ in range(count): items.append(read_array_element_raw(...))
RECURSIVE ReadArrayItems(_, _, _, _, _)
ReadArrayItems(r, ctx, type_name, count, items) ==
    IF count <= 0 THEN Ok(items, r)
    ELSE Bind([item \in {read_array_element_raw(r, ctx, type_name)} |->
         IF ~item.ok THEN Fail(item.r)
         ELSE ReadArrayItems(item.r, ctx, type_name, count - 1, Append(items, item.v))])

\* for _ in range(count): items.append(read_struct_value(...))
RECURSIVE ReadStructItems(_, _, _, _, _)
ReadStructItems(r, ctx, type_name, count, items) ==
    IF count <= 0 THEN Ok(items, r)
    ELSE Bind([item \in {read_struct_value(r, ctx, type_name)} |->
         IF ~item.ok THEN Fail(item.r)
         ELSE ReadStructItems(item.r, ctx, type_name, count - 1, Append(items, item.v))])

ArrayStructProperty_read(r, ctx, count, unknown, outer_element_type) ==
    Bind([name_index \in {read_uint16(r)} |->
    IF ~name_index.ok THEN Fail(name_index.r) ELSE
    Bind([type_index \in {read_uint16(name_index.r)} |->
    IF ~type_index.ok THEN Fail(type_index.r) ELSE
    Bind([size \in {read_uint32(type_index.r)} |->
    IF ~size.ok THEN Fail(size.r) ELSE
    Bind([index \in {read_uint32(size.r)} |->
    IF ~index.ok THEN Fail(index.r) ELSE
    Bind([element_type \in {FName_read(index.r, ctx.names_table)} |->
    IF ~element_type.ok THEN Fail(element_type.r) ELSE
    Bind([guid \in {FGuid_read(element_type.r)} |->
    IF ~guid.ok THEN Fail(guid.r) ELSE
    Bind([unknown2 \in {read_uint8(guid.r)} |->
    IF ~unknown2.ok THEN Fail(unknown2.r) ELSE
    Bind([items \in {ReadStructItems(unknown2.r, ctx, element_type.v.name, count,
                                     <<>>)} |->
    IF ~items.ok THEN Fail(items.r)
    ELSE Ok([cls |-> "ArrayStructProperty", unknown |-> unknown,
             outer_element_type |-> outer_element_type,
             name_index |-> name_index.v, type_index |-> type_index.v,
             size |-> size.v, index |-> index.v, element_type |-> element_type.v,
             guid |-> guid.v, unknown2 |-> U8Val(unknown2.v), items |-> items.v],
            items.r)])])])])])])])])

ArrayProperty_read(r, ctx, size) ==
    Bind([element_type \in {FName_read(r, ctx.names_table)} |->
    IF ~element_type.ok THEN Fail(element_type.r) ELSE
    Bind([unknown \in {read_uint8(element_type.r)} |->
    IF ~unknown.ok THEN Fail(unknown.r) ELSE
    Bind([count \in {read_int32(unknown.r)} |->
    IF ~count.ok THEN Fail(count.r)
    ELSE IF element_type.v.name = S_StructProperty
         THEN ArrayStructProperty_read(count.r, ctx, I32Val(count.v),
                                       U8Val(unknown.v), element_type.v)
    ELSE
    Bind([items \in {ReadArrayItems(count.r, ctx, element_type.v.name,
                                    I32Val(count.v), <<>>)} |->
    IF ~items.ok THEN Fail(items.r)
    ELSE Ok([cls |-> "ArrayProperty", element_type |-> element_type.v,
             unknown |-> U8Val(unknown.v), items |-> items.v], items.r)])])])])

\* for _ in range(count): entries.append((read_map_element(key_type),
\* read_map_element(value_type)))
RECURSIVE ReadMapEntries(_, _, _, _, _, _)
ReadMapEntries(r, ctx, key_type, value_type, count, entries) ==
    IF count <= 0 THEN Ok(entries, r)
    ELSE Bind([key \in {read_array_element_raw(r, ctx, key_type)} |->
         IF ~key.ok THEN Fail(key.r) ELSE
         Bind([value \in {read_array_element_raw(key.r, ctx, value_type)} |->
         IF ~value.ok THEN Fail(value.r)
         ELSE ReadMapEntries(value.r, ctx, key_type, value_type, count - 1,
                             Append(entries, [key |-> key.v, value |-> value.v]))])])

MapProperty_read(r, ctx, size) ==
    Bind([key_type \in {FName_read(r, ctx.names_table)} |->
    IF ~key_type.ok THEN Fail(key_type.r) ELSE
    Bind([value_type \in {FName_read(key_type.r, ctx.names_table)} |->
    IF ~value_type.ok THEN Fail(value_type.r) ELSE
    Bind([unknown \in {read_bytes(value_type.r, 5)} |->
    IF ~unknown.ok THEN Fail(unknown.r) ELSE
    Bind([count \in {read_int32(unknown.r)} |->
    IF ~count.ok THEN Fail(count.r) ELSE
    Bind([entries \in {ReadMapEntries(count.r, ctx, key_type.v.name,
                                      value_type.v.name, I32Val(count.v), <<>>)} |->
    IF ~entries.ok THEN Fail(entries.r)
    ELSE Ok([key_type |-> key_type.v, value_type |-> value_type.v,
             unknown |-> unknown.v, entries |-> entries.v], entries.r)])])])])])

\* the pair (value, no_raw) of read_property_value, from the result of the
\* read of the value
WithNoRaw(value, no_raw) ==
    IF ~value.ok THEN Fail(value.r)
    ELSE Ok([value |-> value.v, no_raw |-> no_raw], value.r)

read_property_value(r, ctx, type_name, size) ==
    IF type_name = S_IntProperty
    THEN Bind([no_raw \in {read_uint8(r)} |->
         IF ~no_raw.ok THEN Fail(no_raw.r)
         ELSE WithNoRaw(read_int32(no_raw.r), U8Val(no_raw.v))])
    ELSE IF type_name = S_StrProperty
    THEN Bind([no_raw \in {read_uint8(r)} |->
         IF ~no_raw.ok THEN Fail(no_raw.r)
         ELSE WithNoRaw(read_fstring(no_raw.r), U8Val(no_raw.v))])
    ELSE IF type_name = S_NameProperty
    THEN Bind([no_raw \in {read_uint8(r)} |->
         IF ~no_raw.ok THEN Fail(no_raw.r)
         ELSE WithNoRaw(FName_read(no_raw.r, ctx.names_table), U8Val(no_raw.v))])
    ELSE IF type_name = S_StructProperty THEN WithNoRaw(StructProperty_read(r, ctx), 0)
    ELSE IF type_name = S_ArrayProperty THEN WithNoRaw(ArrayProperty_read(r, ctx, size), 0)
    ELSE IF type_name = S_MapProperty THEN WithNoRaw(MapProperty_read(r, ctx, size), 0)
    ELSE \* a type the reader does not know: no_raw and size raw bytes
         Bind([no_raw \in {read_uint8(r)} |->
         IF ~no_raw.ok THEN Fail(no_raw.r)
         ELSE WithNoRaw(IF U32Fits(size) THEN read_bytes(no_raw.r, U32Val(size))
                        ELSE Fail(no_raw.r), U8Val(no_raw.v))])

Property_read(r, ctx) ==
    Bind([name \in {FName_read(r, ctx.names_table)} |->
    IF ~name.ok THEN Fail(name.r)
    ELSE IF name.v.name = S_None
    THEN Ok([name |-> name.v, type_name |-> FName(S_None, 0, NONE), size |-> U32(0),
             index |-> U32(0), no_raw |-> 0, value |-> NONE], name.r)
    ELSE
    Bind([type_name \in {FName_read(name.r, ctx.names_table)} |->
    IF ~type_name.ok THEN Fail(type_name.r) ELSE
    Bind([size \in {read_uint32(type_name.r)} |->
    IF ~size.ok THEN Fail(size.r) ELSE
    Bind([index \in {read_uint32(size.r)} |->
    IF ~index.ok THEN Fail(index.r) ELSE
    Bind([vn \in {read_property_value(index.r, ctx, type_name.v.name, size.v)} |->
    IF ~vn.ok THEN Fail(vn.r)
    ELSE Ok([name |-> name.v, type_name |-> type_name.v, size |-> size.v,
             index |-> index.v, no_raw |-> vn.v.no_raw, value |-> vn.v.value],
            vn.r)])])])])])

UObjectLoadedData_read(r, names_table) ==
    Bind([name \in {FName_read(r, names_table)} |->
    IF ~name.ok THEN Fail(name.r) ELSE
    Bind([outer_id \in {read_uint32(name.r)} |->
    IF ~outer_id.ok THEN Fail(outer_id.r)
    ELSE Ok([name |-> name.v, outer_id |-> outer_id.v], outer_id.r)])])

\* the bytes between the end of a parsed payload and start + length, for
\* Component.read and UObject.read_data: None when there are none
ReadExtra(r, stop) ==
    IF r.pos = stop THEN Ok(NONE, r)
    ELSE IF r.pos > stop THEN Fail(r)
    ELSE Bind([extra \in {read_bytes(r, stop - r.pos)} |->
         IF ~extra.ok THEN Fail(extra.r) ELSE Ok(Some(extra.v), extra.r)])

\* Component.read, for a component_key that routes to PropertyBag.read (no
\* document of the model has a component of variables)
Component_read(r, ctx) ==
    Bind([component_key \in {read_fstring(r)} |->
    IF ~component_key.ok \/ IsNone(component_key.v) THEN Fail(component_key.r) ELSE
    Bind([length \in {read_int32(component_key.r)} |->
    IF ~length.ok THEN Fail(length.r) ELSE
    Bind([properties \in {PropertyBag_read(length.r, ctx)} |->
    IF ~properties.ok THEN Fail(properties.r) ELSE
    Bind([extra_data \in {ReadExtra(properties.r,
                                    length.r.pos + I32Val(length.v))} |->
    IF ~extra_data.ok THEN Fail(extra_data.r)
    ELSE Ok([component_key |-> component_key.v[1], properties |-> Some(properties.v),
             extra_data |-> extra_data.v], extra_data.r)])])])])

RECURSIVE ReadComponents(_, _, _, _)
ReadComponents(r, ctx, count, components) ==
    IF count <= 0 THEN Ok(components, r)
    ELSE Bind([comp \in {Component_read(r, ctx)} |->
         IF ~comp.ok THEN Fail(comp.r)
         ELSE ReadComponents(comp.r, ctx, count - 1, Append(components, comp.v))])

\* an optional value from the result of the read of the value
Optional(x) == IF ~x.ok THEN Fail(x.r) ELSE Ok(Some(x.v), x.r)

UObject_read_header(r, ctx, index) ==
    Bind([was_loaded \in {read_uint8(r)} |->
    IF ~was_loaded.ok THEN Fail(was_loaded.r) ELSE
    Bind([object_path \in
             {IF U8Val(was_loaded.v) # 0 /\ index = 0 /\ ~IsNone(ctx.class_path)
              THEN Ok(ctx.class_path, was_loaded.r)
              ELSE read_fstring(was_loaded.r)} |->
    IF ~object_path.ok THEN Fail(object_path.r) ELSE
    Bind([loaded_data \in
             {IF U8Val(was_loaded.v) = 0
              THEN Optional(UObjectLoadedData_read(object_path.r, ctx.names_table))
              ELSE Ok(NONE, object_path.r)} |->
    IF ~loaded_data.ok THEN Fail(loaded_data.r)
    ELSE Ok([was_loaded |-> U8Val(was_loaded.v), object_path |-> object_path.v,
             loaded_data |-> loaded_data.v, object_index |-> I32(0),
             properties |-> NONE, extra_properties_data |-> NONE, is_actor |-> 0,
             components |-> NONE], loaded_data.r)])])])

\* the properties and the bytes after them, when length > 0
ReadObjectProperties(r, ctx, length) ==
    IF length = U32(0) THEN Ok([properties |-> NONE, extra |-> NONE], r)
    ELSE IF ~U32Fits(length) THEN Fail(r)
    ELSE
    Bind([properties \in {PropertyBag_read(r, ctx)} |->
    IF ~properties.ok THEN Fail(properties.r) ELSE
    Bind([extra \in {ReadExtra(properties.r, r.pos + U32Val(length))} |->
    IF ~extra.ok THEN Fail(extra.r)
    ELSE Ok([properties |-> Some(properties.v), extra |-> extra.v], extra.r)])])

\* UObject._read_components
read_components(r, ctx) ==
    Bind([count \in {read_uint32(r)} |->
    IF ~count.ok \/ ~U32Fits(count.v) THEN Fail(count.r)
    ELSE ReadComponents(count.r, ctx, U32Val(count.v), <<>>)])

\* UObject.read_data: the object after the call
UObject_read_data(self, r, ctx) ==
    Bind([object_index \in {read_int32(r)} |->
    IF ~object_index.ok THEN Fail(object_index.r) ELSE
    Bind([length \in {read_uint32(object_index.r)} |->
    IF ~length.ok THEN Fail(length.r) ELSE
    Bind([props \in {ReadObjectProperties(length.r, ctx, length.v)} |->
    IF ~props.ok THEN Fail(props.r) ELSE
    Bind([is_actor \in {read_uint8(props.r)} |->
    IF ~is_actor.ok THEN Fail(is_actor.r) ELSE
    Bind([components \in {IF U8Val(is_actor.v) # 0
                          THEN Optional(read_components(is_actor.r, ctx))
                          ELSE Ok(self.components, is_actor.r)} |->
    IF ~components.ok THEN Fail(components.r)
    ELSE Ok([self EXCEPT !.object_index = object_index.v,
                         !.properties = props.v.properties,
                         !.extra_properties_data = props.v.extra,
                         !.is_actor = U8Val(is_actor.v),
                         !.components = components.v], components.r)])])])])])

OffsetInfo_read(r) ==
    Bind([names \in {read_int64(r)} |->
    IF ~names.ok THEN Fail(r) ELSE
    Bind([version \in {read_uint32(names.r)} |->
    IF ~version.ok THEN Fail(r) ELSE
    Bind([objects \in {read_int64(version.r)} |->
    IF ~objects.ok THEN Fail(r)
    ELSE Ok([names |-> names.v, version |-> version.v, objects |-> objects.v],
            objects.r)])])])

PackageVersion_read(r) ==
    Bind([ue_version \in {read_int32(r)} |->
    IF ~ue_version.ok THEN Fail(r) ELSE
    Bind([ue_licensee_version \in {read_int32(ue_version.r)} |->
    IF ~ue_licensee_version.ok THEN Fail(r)
    ELSE Ok([ue_version |-> ue_version.v,
             ue_licensee_version |-> ue_licensee_version.v],
            ue_licensee_version.r)])])

FTopLevelAssetPath_read(r) ==
    Bind([package_name \in {read_fstring(r)} |->
    IF ~package_name.ok THEN Fail(package_name.r) ELSE
    Bind([asset_name \in {read_fstring(package_name.r)} |->
    IF ~asset_name.ok THEN Fail(asset_name.r)
    ELSE Ok([package_name |-> package_name.v, asset_name |-> asset_name.v],
            asset_name.r)])])

\* for _ in range(names_count): names_table.append(reader.read_fstring());
\* the loop is run as its first half followed by its second half
RECURSIVE ReadNames(_, _, _)
ReadNames(r, names_count, names_table) ==
    IF names_count <= 0 THEN Ok(names_table, r)
    ELSE IF names_count = 1
    THEN Bind([name \in {read_fstring(r)} |->
         IF ~name.ok \/ IsNone(name.v) THEN Fail(name.r)
         ELSE Ok(Append(names_table, name.v[1]), name.r)])
    ELSE Bind([half \in {ReadNames(r, names_count \div 2, names_table)} |->
         IF ~half.ok THEN half
         ELSE ReadNames(half.r, names_count - names_count \div 2, half.v)])

\* for i in range(num_objects): objects.append(UObject.read_header(...))
RECURSIVE ReadObjectsHeaders(_, _, _, _)
ReadObjectsHeaders(r, ctx, num_objects, objects) ==
    IF Len(objects) >= num_objects THEN Ok(objects, r)
    ELSE Bind([obj \in {UObject_read_header(r, ctx, Len(objects))} |->
         IF ~obj.ok THEN Fail(obj.r)
         ELSE ReadObjectsHeaders(obj.r, ctx, num_objects, Append(objects, obj.v))])

\* for obj in objects: obj.read_data(reader, ctx)
RECURSIVE ReadObjectsData(_, _, _, _)
ReadObjectsData(r, ctx, objects, k) ==
    IF k > Len(objects) THEN Ok(objects, r)
    ELSE Bind([obj \in {UObject_read_data(objects[k], r, ctx)} |->
         IF ~obj.ok THEN Fail(obj.r)
         ELSE ReadObjectsData(obj.r, ctx, [objects EXCEPT ![k] = obj.v], k + 1)])

\* the names table of SaveData.read: reader.position = name_table_offset,
\* names_count and the names
ReadNamesTable(r, name_table_offset) ==
    Bind([at_names \in {SetReaderPosition(r, I64Val(name_table_offset))} |->
    IF ~at_names.ok THEN Fail(at_names.r) ELSE
    Bind([names_count \in {read_int32(at_names.r)} |->
    IF ~names_count.ok THEN Fail(names_count.r)
    ELSE ReadNames(names_count.r, I32Val(names_count.v), <<>>)])])

\* the objects table of SaveData.read: reader.position = objects_offset,
\* num_objects and the headers
ReadObjectsTable(r, ctx, objects_offset) ==
    Bind([at_objects \in {SetReaderPosition(r, I64Val(objects_offset))} |->
    IF ~at_objects.ok THEN Fail(at_objects.r) ELSE
    Bind([num_objects \in {read_int32(at_objects.r)} |->
    IF ~num_objects.ok THEN Fail(num_objects.r)
    ELSE ReadObjectsHeaders(num_objects.r, ctx, I32Val(num_objects.v), <<>>)])])

\* SaveData.read(reader, has_package_version, has_top_level_asset_path)
SaveData_read_with(r, has_package_version, has_top_level_asset_path) ==
    Bind([package_version \in {IF has_package_version
                                THEN Optional(PackageVersion_read(r))
                                ELSE Ok(NONE, r)} |->
    IF ~package_version.ok THEN Fail(package_version.r) ELSE
    Bind([save_game_class_path \in
             {IF has_top_level_asset_path
              THEN Optional(FTopLevelAssetPath_read(package_version.r))
              ELSE Ok(NONE, package_version.r)} |->
    IF ~save_game_class_path.ok THEN Fail(save_game_class_path.r) ELSE
    Bind([oi \in {OffsetInfo_read(save_game_class_path.r)} |->
    IF ~oi.ok THEN Fail(oi.r) ELSE
    Bind([names_table \in {ReadNamesTable(oi.r, oi.v.names)} |->
    IF ~names_table.ok THEN Fail(names_table.r) ELSE
    Bind([ctx \in {SerializationContext(names_table.v,
                                        AssetPath(save_game_class_path.v))} |->
    Bind([headers \in {ReadObjectsTable(names_table.r, ctx, oi.v.objects)} |->
    IF ~headers.ok THEN Fail(headers.r) ELSE
    Bind([at_data \in {SetReaderPosition(headers.r, oi.r.pos)} |->
    IF ~at_data.ok THEN Fail(at_data.r) ELSE
    Bind([objects \in {ReadObjectsData(at_data.r, ctx, headers.v, 1)} |->
    IF ~objects.ok THEN Fail(objects.r)
    ELSE LET objects_data_offset == oi.r.pos
             max_position == Max(Max(Max(objects_data_offset, names_table.r.pos),
                                     headers.r.pos), objects.r.pos)
         IN  Ok([package_version |-> package_version.v,
                 save_game_class_path |-> save_game_class_path.v,
                 name_table_offset |-> oi.v.names,
                 version |-> oi.v.version,
                 objects_offset |-> oi.v.objects,
                 objects |-> objects.v,
                 names_table |-> names_table.v],
                [objects.r EXCEPT !.pos = max_position])])])])])])])])])

\* SaveData.read with has_package_version and has_top_level_asset_path
SaveData_read(r) == SaveData_read_with(r, TRUE, TRUE)

FileHeader_read(r) ==
    Bind([crc32 \in {read_uint32(r)} |->
    IF ~crc32.ok THEN Fail(r) ELSE
    Bind([decompressed_size \in {read_int32(crc32.r)} |->
    IF ~decompressed_size.ok THEN Fail(r) ELSE
    Bind([version \in {read_int32(decompressed_size.r)} |->
    IF ~version.ok THEN Fail(r) ELSE
    Bind([build_number \in {read_int32(version.r)} |->
    IF ~build_number.ok THEN Fail(r)
    ELSE Ok([crc32 |-> crc32.v, decompressed_size |-> decompressed_size.v,
             version |-> version.v, build_number |-> build_number.v],
            build_number.r)])])])])

\* SaveFile.from_decompressed: [ok, v], v the SaveFile
from_decompressed(data) ==
    Bind([file_header \in {FileHeader_read(NewReader(data))} |->
    IF ~file_header.ok THEN [ok |-> FALSE, v |-> <<>>] ELSE
    Bind([save_data \in {SaveData_read(file_header.r)} |->
    IF ~save_data.ok THEN [ok |-> FALSE, v |-> <<>>]
    ELSE [ok |-> TRUE,
          v |-> [file_header |-> file_header.v, save_data |-> save_data.v,
                 pre_save_data |-> <<>>]]])])

(***************************************************************************)
(* The documents the model loads.                                          *)
(***************************************************************************)
N_Foo == <<70, 111, 111>>  \* 'Foo'
N_Bar == <<66, 97, 114>>  \* 'Bar'
N_Baz == <<66, 97, 122>>  \* 'Baz'
N_Zed == <<90, 101, 100>>  \* 'Zed'
N_Qx == <<81, 120>>  \* 'Qx'
N_Eacute == <<233>>  \* 'é'
N_Path == <<47, 71>>  \* '/G'
N_Key == <<75>>  \* 'K'

DocNames ==
    <<S_None, N_Foo, S_IntProperty, S_NameProperty, N_Bar, S_StructProperty,
      S_ArrayProperty, S_StrProperty, S_Guid, N_Baz, N_Zed>>
\* the names table of the document with a map
MapNames == <<S_None, N_Foo, S_IntProperty, S_NameProperty, N_Bar, S_MapProperty>>

\* the FName a reader gives for the first slot of DocNames that holds name
Nm(name) ==
    FName(name, (CHOOSE i \in 1..Len(DocNames) :
                    DocNames[i] = name /\ \A j \in 1..(i - 1) : DocNames[j] # name) - 1,
          NONE)

Prop(name, type_name, size, value) ==
    [name |-> Nm(name), type_name |-> Nm(type_name), size |-> U32(size),
     index |-> U32(0), no_raw |-> 0, value |-> value]

EmptyGuid == [a |-> U32(0), b |-> U32(0), c |-> U32(0), d |-> U32(0)]
SomeGuid == [a |-> U32(1), b |-> U32(2), c |-> U32(3), d |-> U32(4)]

PropName == Prop(N_Foo, S_NameProperty, 2, Nm(N_Bar))
PropNumbered == Prop(N_Bar, S_NameProperty, 6, FName(N_Bar, 4, Some(I32(2))))
PropInt == Prop(N_Bar, S_IntProperty, 4, I32(7))
PropStr == Prop(N_Foo, S_StrProperty, 7, Some(N_Qx))
PropGuid ==
    Prop(N_Foo, S_StructProperty, 0,
         [type_name |-> Nm(S_Guid), guid |-> EmptyGuid, unknown |-> 0,
          value |-> SomeGuid])
PropStruct ==
    Prop(N_Baz, S_StructProperty, 0,
         [type_name |-> Nm(N_Baz), guid |-> EmptyGuid, unknown |-> 0,
          value |-> [properties |-> <<PropName, PropStr>>]])
PropNameArray ==
    Prop(N_Foo, S_ArrayProperty, 0,
         [cls |-> "ArrayProperty", element_type |-> Nm(S_NameProperty),
          unknown |-> 0, items |-> <<Nm(N_Bar), Nm(N_Foo)>>])
PropStructArray ==
    Prop(N_Bar, S_ArrayProperty, 0,
         [cls |-> "ArrayStructProperty", unknown |-> 0,
          outer_element_type |-> Nm(S_StructProperty),
          name_index |-> U16(4), type_index |-> U16(5), size |-> U32(0),
          index |-> U32(0), element_type |-> Nm(N_Baz), guid |-> EmptyGuid,
          unknown2 |-> 0,
          items |-> <<[properties |-> <<PropName>>], [properties |-> <<PropInt>>]>>])
\* a kind the dispatch table does not have: size bytes kept as they are
PropUnknown ==
    [name |-> Nm(N_Foo), type_name |-> Nm(N_Zed), size |-> U32(2),
     index |-> U32(0), no_raw |-> 0, value |-> <<5, 6>>]

\* one of that kind with no bytes and a no_raw byte of 1
PropUnknownEmpty ==
    [name |-> Nm(N_Bar), type_name |-> Nm(N_Zed), size |-> U32(0),
     index |-> U32(3), no_raw |-> 1, value |-> <<>>]

\* a map from names to integers with one entry; its size is the number of
\* bytes of the value as MapProperty.write lays it out: two FNames, 5
\* bytes, the count, and 6 bytes for the entry
PropMap ==
    [name |-> Nm(N_Foo), type_name |-> FName(S_MapProperty, 5, NONE),
     size |-> U32(19), index |-> U32(0), no_raw |-> 0,
     value |-> [key_type |-> Nm(S_NameProperty), value_type |-> Nm(S_IntProperty),
                unknown |-> <<0, 0, 0, 0, 0>>,
                entries |-> <<[key |-> Nm(N_Bar), value |-> I32(7)]>>]]

\* the first object of the table: its path is the asset path
RootObject(object_index, properties) ==
    [was_loaded |-> 1, object_path |-> Some(N_Path), loaded_data |-> NONE,
     object_index |-> I32(object_index), properties |-> Some([properties |-> properties]),
     extra_properties_data |-> NONE, is_actor |-> 0, components |-> NONE]

\* an object with loaded data, an inline path, and a component
ActorObject ==
    [was_loaded |-> 0, object_path |-> Some(N_Path),
     loaded_data |-> Some([name |-> Nm(N_Bar), outer_id |-> U32(0)]),
     object_index |-> I32(1), properties |-> Some([properties |-> <<PropName>>]),
     extra_properties_data |-> Some(<<0, 0>>), is_actor |-> 1,
     components |-> Some(<<[component_key |-> N_Key,
                            properties |-> Some([properties |-> <<PropInt>>]),
                            extra_data |-> Some(<<0>>)]>>)]

Document(objects) ==
    [file_header |-> [crc32 |-> U32(0), decompressed_size |-> I32(0),
                      version |-> I32(EXPECTED_VERSION), build_number |-> I32(1)],
     save_data |-> [package_version |-> Some([ue_version |-> I32(1),
                                              ue_licensee_version |-> I32(2)]),
                    save_game_class_path |-> Some([package_name |-> Some(N_Path),
                                                   asset_name |-> Some(N_Key)]),
                    name_table_offset |-> I64(0), version |-> U32(3),
                    objects_offset |-> I64(0), objects |-> objects,
                    names_table |-> DocNames],
     pre_save_data |-> <<>>]

DocMap ==
    [Document(<<RootObject(0, <<PropMap, PropName>>)>>)
     EXCEPT !.save_data.names_table = MapNames]
\* no object at all
DocEmpty == Document(<<>>)
\* two loaded objects without loaded data
DocPair == Document(<<RootObject(0, <<PropName>>), RootObject(1, <<PropInt>>)>>)
DocFlat == Document(<<RootObject(0, <<PropName, PropNumbered, PropInt, PropStr>>)>>)
DocNested ==
    Document(<<RootObject(0, <<PropStruct, PropNameArray, PropGuid, PropStructArray,
                               PropUnknown>>),
               ActorObject>>)


\* where the data of the first object starts: after the FileHeader, the
\* PackageVersion, the asset path and the OffsetInfo
ObjectsDataOffset(data) ==
    OffsetInfo_read(FTopLevelAssetPath_read(PackageVersion_read(
        FileHeader_read(NewReader(data)).r).r).r).r.pos

\* DocFlat as a writer of this format lays it out
InputFlat == to_decompressed(DocFlat).data
InputNested == to_decompressed(DocNested).data
\* InputFlat with object_index = 1 in the data of its first object
InputIndexed == update_crc32(pack_into(InputFlat, ObjectsDataOffset(InputFlat), I32(1)))
\* InputFlat with the last name of its table, 'Zed', replaced by a UTF-16
\* string of one code unit in the form read_fstring decodes: length -2,
\* the code unit of 'é', and a two-byte NUL
InputUtf16 ==
    update_crc32(SubSeq(InputFlat, 1, Len(InputFlat) - 8)
                 \o <<254, 255, 255, 255, 233, 0, 0, 0>>)
\* DocMap as a writer of this format lays it out
InputMap == to_decompressed(DocMap).data
\* DocEmpty as a writer of this format lays it out
InputEmpty == to_decompressed(DocEmpty).data
\* DocPair, the path of its first object elided and the path of the second
\* inline, with object_index = 1 in the data of its first object
InputIndexedPair ==
    Bind([data \in {to_decompressed(DocPair).data} |->
        update_crc32(pack_into(data, ObjectsDataOffset(data), I32(1)))])
DocInputs ==
    <<InputFlat, InputNested, InputIndexed, InputUtf16, InputMap, InputEmpty,
      InputIndexedPair>>

\* The values an editor reaches in a loaded document, as paths of field
\* names and indices (an optional value is a sequence of at most one
\* element), through struct values, arrays of structs and components:
\*   "name"  the FName objects that are values: the value of a NameProperty,
\*           the items of an array of NameProperty, the name of loaded data
\*   "str"   the values of the StrProperty properties
\*   "array" the arrays of NameProperty
\*   "map"   the maps from names to integers
\*   "fname" every FName object: those of "name", and the name and type of
\*           each property, the type of a struct, the element type of an array
RECURSIVE BagSites(_, _, _)
RECURSIVE PropSites(_, _, _)
RECURSIVE ItemsSites(_, _, _, _)

PropSites(p, path, kind) ==
    (IF kind = "fname" THEN <<path \o <<"name">>, path \o <<"type_name">>>> ELSE <<>>) \o
    IF p.type_name.name = S_NameProperty
    THEN IF kind \in {"name", "fname"} THEN <<path \o <<"value">>>> ELSE <<>>
    ELSE IF p.type_name.name = S_StrProperty
    THEN IF kind = "str" THEN <<path \o <<"value">>>> ELSE <<>>
    ELSE IF p.type_name.name = S_StructProperty
    THEN (IF kind = "fname" THEN <<path \o <<"value", "type_name">>>> ELSE <<>>) \o
         IF p.value.type_name.name # S_Guid
         THEN BagSites(p.value.value, path \o <<"value", "value">>, kind) ELSE <<>>
    ELSE IF p.type_name.name = S_ArrayProperty
    THEN (IF kind = "fname" THEN <<path \o <<"value", "element_type">>>> ELSE <<>>) \o
         IF p.value.cls = "ArrayStructProperty"
         THEN IF p.value.element_type.name # S_Guid
              THEN ItemsSites(p.value.items, path \o <<"value", "items">>, kind, 1)
              ELSE <<>>
         ELSE IF p.value.element_type.name = S_NameProperty
         THEN IF kind = "array" THEN <<path \o <<"value">>>>
              ELSE IF kind \in {"name", "fname"}
              THEN [i \in 1..Len(p.value.items) |-> path \o <<"value", "items", i>>]
              ELSE <<>>
         ELSE <<>>
    ELSE IF p.type_name.name = S_MapProperty
    THEN (IF kind = "fname"
          THEN <<path \o <<"value", "key_type">>, path \o <<"value", "value_type">>>>
          ELSE <<>>) \o
         IF p.value.key_type.name = S_NameProperty
         THEN IF kind = "map" THEN <<path \o <<"value">>>>
              ELSE IF kind \in {"name", "fname"}
              THEN [i \in 1..Len(p.value.entries) |->
                       path \o <<"value", "entries", i, "key">>]
              ELSE <<>>
         ELSE <<>>
    ELSE <<>>

ItemsSites(items, path, kind, i) ==
    IF i > Len(items) THEN <<>>
    ELSE BagSites(items[i], path \o <<i>>, kind) \o ItemsSites(items, path, kind, i + 1)

RECURSIVE BagSitesFrom(_, _, _, _)
BagSitesFrom(bag, path, kind, k) ==
    IF k > Len(bag.properties) THEN <<>>
    ELSE PropSites(bag.properties[k], path \o <<"properties", k>>, kind)
         \o BagSitesFrom(bag, path, kind, k + 1)
BagSites(bag, path, kind) == BagSitesFrom(bag, path, kind, 1)

RECURSIVE ComponentsSites(_, _, _, _)
ComponentsSites(components, path, kind, k) ==
    IF k > Len(components) THEN <<>>
    ELSE (IF IsNone(components[k].properties) THEN <<>>
          ELSE BagSites(components[k].properties[1], path \o <<k, "properties", 1>>, kind))
         \o ComponentsSites(components, path, kind, k + 1)

ObjectSites(obj, path, kind) ==
    (IF kind \in {"name", "fname"} /\ ~IsNone(obj.loaded_data)
     THEN <<path \o <<"loaded_data", 1, "name">>>> ELSE <<>>)
    \o (IF IsNone(obj.properties) THEN <<>>
        ELSE BagSites(obj.properties[1], path \o <<"properties", 1>>, kind))
    \o (IF IsNone(obj.components) THEN <<>>
        ELSE ComponentsSites(obj.components[1], path \o <<"components", 1>>, kind, 1))

RECURSIVE ObjectsSites(_, _, _)
ObjectsSites(objects, kind, k) ==
    IF k > Len(objects) THEN <<>>
    ELSE ObjectSites(objects[k], <<"save_data", "objects", k>>, kind)
         \o ObjectsSites(objects, kind, k + 1)

\* the paths of the values of one kind in a SaveFile, objects in table order
Sites(self, kind) == ObjectsSites(self.save_data.objects, kind, 1)

RECURSIVE GetAt(_, _)
GetAt(v, path) == IF Len(path) = 0 THEN v ELSE GetAt(v[Head(path)], Tail(path))

RECURSIVE SetAt(_, _, _)
SetAt(v, path, x) ==
    IF Len(path) = 0 THEN x
    ELSE [v EXCEPT ![Head(path)] = SetAt(@, Tail(path), x)]

(***************************************************************************)
(* PersistenceContainer: FInfo, FTransform, ActorDynamicData, Actor.       *)
(***************************************************************************)
\* a double is the eight bytes struct.pack('<d', value) gives
write_double(w, v) == write_bytes(w, v)
read_double(r) == ReadFixed(r, 8)

D_Zero == <<0, 0, 0, 0, 0, 0, 0, 0>>
D_One == <<0, 0, 0, 0, 0, 0, 240, 63>>

RECURSIVE WriteDoubles(_, _, _)
WriteDoubles(w, values, k) ==
    IF k > Len(values) THEN w
    ELSE Bind([w1 \in {write_double(w, values[k])} |->
             WriteDoubles(w1, values, k + 1)])

RECURSIVE ReadDoubles(_, _, _)
ReadDoubles(r, count, values) ==
    IF count = 0 THEN Ok(values, r)
    ELSE Bind([d \in {read_double(r)} |->
         IF ~d.ok THEN Fail(d.r)
         ELSE ReadDoubles(d.r, count - 1, Append(values, d.v))])

\* FQuaternion.write (x, y, z, w) and FVector.write (x, y, z)
FQuaternion_write(w, self) == WriteDoubles(w, self, 1)
FVector_write(w, self) == WriteDoubles(w, self, 1)
FQuaternion_read(r) == ReadDoubles(r, 4, <<>>)
FVector_read(r) == ReadDoubles(r, 3, <<>>)

FTransform_write(w, self) ==
    Bind([w1 \in {FQuaternion_write(w, self.rotation)} |->
    Bind([w2 \in {FVector_write(w1, self.position)} |->
        FVector_write(w2, self.scale)])])

FTransform_read(r) ==
    Bind([rotation \in {FQuaternion_read(r)} |->
    IF ~rotation.ok THEN Fail(rotation.r) ELSE
    Bind([position \in {FVector_read(rotation.r)} |->
    IF ~position.ok THEN Fail(position.r) ELSE
    Bind([scale \in {FVector_read(position.r)} |->
    IF ~scale.ok THEN Fail(scale.r)
    ELSE Ok([rotation |-> rotation.v, position |-> position.v, scale |-> scale.v],
            scale.r)])])])

\* FTransform.identity()
FTransform_identity ==
    [rotation |-> <<D_Zero, D_Zero, D_Zero, D_One>>,
     position |-> <<D_Zero, D_Zero, D_Zero>>,
     scale |-> <<D_One, D_One, D_One>>]

FInfo_write(w, self) ==
    Bind([w1 \in {write_uint64(w, self.unique_id)} |->
    Bind([w2 \in {write_int32(w1, self.offset)} |->
        write_int32(w2, self.size)])])

FInfo_read(r) ==
    Bind([unique_id \in {read_uint64(r)} |->
    IF ~unique_id.ok THEN Fail(unique_id.r) ELSE
    Bind([offset \in {read_int32(unique_id.r)} |->
    IF ~offset.ok THEN Fail(offset.r) ELSE
    Bind([size \in {read_int32(offset.r)} |->
    IF ~size.ok THEN Fail(size.r)
    ELSE Ok([unique_id |-> unique_id.v, offset |-> offset.v, size |-> size.v],
            size.r)])])])

ActorDynamicData_write(w, self) ==
    Bind([w1 \in {write_uint64(w, self.unique_id)} |->
    Bind([w2 \in {FTransform_write(w1, self.transform)} |->
        write_fstring(w2, self.class_path)])])

ActorDynamicData_read(r) ==
    Bind([unique_id \in {read_uint64(r)} |->
    IF ~unique_id.ok THEN Fail(unique_id.r) ELSE
    Bind([transform \in {FTransform_read(unique_id.r)} |->
    IF ~transform.ok THEN Fail(transform.r) ELSE
    Bind([class_path \in {read_fstring(transform.r)} |->
    IF ~class_path.ok THEN Fail(class_path.r)
    ELSE Ok([unique_id |-> unique_id.v, transform |-> transform.v,
             class_path |-> class_path.v], class_path.r)])])])

\* Actor.write_non_dynamic up to the archive: has_transform and the transform
WriteActorHead(w, self) ==
    Bind([w1 \in {write_uint32(w, self.has_transform)} |->
    IF U32Val(self.has_transform) # 0 /\ ~IsNone(self.transform)
    THEN FTransform_write(w1, self.transform[1])
    ELSE w1])

\* Actor.write_non_dynamic: the writer after the call and the Actor after it
\* (archive.write updates the names table of the archive)
Actor_write_non_dynamic(w, self) ==
    Bind([w1 \in {WriteActorHead(w, self)} |->
    IF ~IsNone(self.archive)
    THEN Bind([a \in {SaveData_write(w1, self.archive[1])} |->
             [w |-> a.w, self |-> [self EXCEPT !.archive = Some(a.self)]]])
    ELSE [w |-> w1, self |-> self]])

\* Actor.read up to the archive: has_transform and the transform
ReadActorHead(r) ==
    Bind([has_transform \in {read_uint32(r)} |->
    IF ~has_transform.ok THEN Fail(has_transform.r) ELSE
    Bind([transform \in {IF U32Val(has_transform.v) # 0
                         THEN Optional(FTransform_read(has_transform.r))
                         ELSE Ok(NONE, has_transform.r)} |->
    IF ~transform.ok THEN Fail(transform.r)
    ELSE Ok([has_transform |-> has_transform.v, transform |-> transform.v],
            transform.r)])])

\* Actor.read: the archive has no PackageVersion and no FTopLevelAssetPath
Actor_read(r) ==
    Bind([head \in {ReadActorHead(r)} |->
    IF ~head.ok THEN Fail(head.r) ELSE
    Bind([archive \in {SaveData_read_with(head.r, FALSE, FALSE)} |->
    IF ~archive.ok THEN Fail(archive.r)
    ELSE Ok([has_transform |-> head.v.has_transform, transform |-> head.v.transform,
             archive |-> Some(archive.v), dynamic_data |-> NONE],
            archive.r)])])

\* actor.write_non_dynamic(actor_writer, ...) for every actor, each on a
\* ByteWriter of its own
ActorsWritten(actors) ==
    [k \in 1..Len(actors) |-> Actor_write_non_dynamic(NewWriter, actors[k].actor)]

\* the actor loop of PersistenceContainer.write: the bytes of every actor
\* are appended; actor_info collects the FInfo of each, regions the bytes
\* written for each and where
RECURSIVE WriteActors(_, _, _, _, _, _)
WriteActors(w, actors, written, k, actor_info, regions) ==
    IF k > Len(actors)
    THEN [w |-> w, actor_info |-> actor_info, regions |-> regions,
          actors |-> [j \in 1..Len(actors) |->
                         [actors[j] EXCEPT !.actor = written[j].self]]]
    ELSE Bind([actor_data \in {to_bytes(written[k].w)} |->
         Bind([w1 \in {write_bytes(w, actor_data)} |->
             WriteActors(w1, actors, written, k + 1,
                         Append(actor_info,
                                [unique_id |-> actors[k].unique_id,
                                 offset |-> I32(w.pos),
                                 size |-> I32(Len(actor_data))]),
                         Append(regions, [offset |-> w.pos, data |-> actor_data]))])])

\* the actors that have dynamic data
RECURSIVE WithDynamicData(_, _)
WithDynamicData(actors, k) ==
    IF k > Len(actors) THEN <<>>
    ELSE (IF ~IsNone(actors[k].actor.dynamic_data)
          THEN <<actors[k].actor.dynamic_data[1]>> ELSE <<>>)
             \o WithDynamicData(actors, k + 1)

RECURSIVE WriteDynamicData(_, _, _)
WriteDynamicData(w, dynamic, k) ==
    IF k > Len(dynamic) THEN w
    ELSE Bind([w1 \in {ActorDynamicData_write(w, dynamic[k])} |->
             WriteDynamicData(w1, dynamic, k + 1)])

RECURSIVE WriteInfos(_, _, _)
WriteInfos(w, actor_info, k) ==
    IF k > Len(actor_info) THEN w
    ELSE Bind([w1 \in {FInfo_write(w, actor_info[k])} |->
             WriteInfos(w1, actor_info, k + 1)])

RECURSIVE WriteDestroyed(_, _, _)
WriteDestroyed(w, destroyed, k) ==
    IF k > Len(destroyed) THEN w
    ELSE Bind([w1 \in {write_uint64(w, destroyed[k])} |->
             WriteDestroyed(w1, destroyed, k + 1)])

\* the patch of PersistenceContainer.write with the two offsets exchanged
PatchOffsets_exchanged(w, patch_offset, index_offset, dynamic_offset, end_position) ==
    SetWriterPosition(
        write_int32(write_int32(SetWriterPosition(w, patch_offset),
                                I32(dynamic_offset)), I32(index_offset)),
        end_position)

\* writer.position = patch_offset; write_int32(index_offset);
\* write_int32(dynamic_offset); writer.position = end_position
PatchOffsets(w, patch_offset, index_offset, dynamic_offset, end_position) ==
    SetWriterPosition(
        write_int32(write_int32(SetWriterPosition(w, patch_offset),
                                I32(index_offset)), I32(dynamic_offset)),
        end_position)

\* PersistenceContainer.write: the writer after the call, the container
\* after it and, as log, the positions the call went through
PersistenceContainer_write(w, self) ==
    Bind([w1 \in {write_uint32(w, self.version)} |->
    Bind([w2 \in {write_int32(write_int32(w1, I32(0)), I32(0))} |->
    Bind([a \in {WriteActors(w2, self.actors, ActorsWritten(self.actors), 1,
                             <<>>, <<>>)} |->
    Bind([dynamic \in {WithDynamicData(self.actors, 1)} |->
    Bind([d1 \in {write_uint32(a.w, U32(Len(dynamic)))} |->
    Bind([w3 \in {WriteDynamicData(d1, dynamic, 1)} |->
    Bind([i1 \in {write_uint32(w3, U32(Len(a.actor_info)))} |->
    Bind([w4 \in {WriteInfos(i1, a.actor_info, 1)} |->
    Bind([x1 \in {write_uint32(w4, U32(Len(self.destroyed)))} |->
    Bind([w5 \in {WriteDestroyed(x1, self.destroyed, 1)} |->
        [w |-> PatchOffsets(w5, w1.pos, w3.pos, a.w.pos, w5.pos),
         self |-> [self EXCEPT !.actors = a.actors],
         log |-> [patch_offset |-> w1.pos, dynamic_offset |-> a.w.pos,
                  index_offset |-> w3.pos, end_position |-> w5.pos,
                  regions |-> a.regions]]])])])])])])])])])])

RECURSIVE ReadInfos(_, _, _)
ReadInfos(r, count, actor_info) ==
    IF count = 0 THEN Ok(actor_info, r)
    ELSE Bind([info \in {FInfo_read(r)} |->
         IF ~info.ok THEN Fail(info.r)
         ELSE ReadInfos(info.r, count - 1, Append(actor_info, info.v))])

RECURSIVE ReadDestroyed(_, _, _)
ReadDestroyed(r, count, destroyed) ==
    IF count = 0 THEN Ok(destroyed, r)
    ELSE Bind([id \in {read_uint64(r)} |->
         IF ~id.ok THEN Fail(id.r)
         ELSE ReadDestroyed(id.r, count - 1, Append(destroyed, id.v))])

\* the actor loop of PersistenceContainer.read
RECURSIVE ReadActors(_, _, _, _)
ReadActors(r, actor_info, k, actors) ==
    IF k > Len(actor_info) THEN Ok(actors, r)
    ELSE Bind([actor_bytes \in
                  {IF SetReaderPosition(r, I32Val(actor_info[k].offset)).ok
                   THEN read_bytes(SetReaderPosition(r, I32Val(actor_info[k].offset)).r,
                                   I32Val(actor_info[k].size))
                   ELSE Fail(r)} |->
         IF ~actor_bytes.ok THEN Fail(actor_bytes.r) ELSE
         Bind([actor \in {Actor_read(NewReader(actor_bytes.v))} |->
         IF ~actor.ok THEN Fail(actor_bytes.r)
         ELSE ReadActors(actor_bytes.r, actor_info, k + 1,
                         Append(actors, [unique_id |-> actor_info[k].unique_id,
                                         actor |-> actor.v]))])])

\* actor.dynamic_data = dynamic_data for the first actor with that unique_id
WithDynamic(actors, dynamic_data) ==
    IF \E k \in 1..Len(actors) : actors[k].unique_id = dynamic_data.unique_id
    THEN [actors EXCEPT
              ![CHOOSE k \in 1..Len(actors) :
                    /\ actors[k].unique_id = dynamic_data.unique_id
                    /\ \A j \in 1..(k - 1) :
                           actors[j].unique_id # dynamic_data.unique_id]
                   .actor.dynamic_data = Some(dynamic_data)]
    ELSE actors

RECURSIVE ReadDynamicData(_, _, _)
ReadDynamicData(r, count, actors) ==
    IF count = 0 THEN Ok(actors, r)
    ELSE Bind([dynamic_data \in {ActorDynamicData_read(r)} |->
         IF ~dynamic_data.ok THEN Fail(dynamic_data.r)
         ELSE ReadDynamicData(dynamic_data.r, count - 1,
                              WithDynamic(actors, dynamic_data.v))])

\* PersistenceContainer.read up to the info table: version, index_offset,
\* dynamic_offset
ReadContainerHeader(r) ==
    Bind([version \in {read_uint32(r)} |->
    IF ~version.ok THEN Fail(version.r) ELSE
    Bind([index_offset \in {read_int32(version.r)} |->
    IF ~index_offset.ok THEN Fail(index_offset.r) ELSE
    Bind([dynamic_offset \in {read_int32(index_offset.r)} |->
    IF ~dynamic_offset.ok THEN Fail(dynamic_offset.r)
    ELSE Ok([version |-> version.v, index_offset |-> I32Val(index_offset.v),
             dynamic_offset |-> I32Val(dynamic_offset.v)], dynamic_offset.r)])])])

\* reader.position = index_offset; the info table and the destroyed list
ReadIndexSection(r, index_offset) ==
    Bind([at_index \in {SetReaderPosition(r, index_offset)} |->
    IF ~at_index.ok THEN Fail(at_index.r) ELSE
    Bind([info_count \in {read_uint32(at_index.r)} |->
    IF ~info_count.ok THEN Fail(info_count.r) ELSE
    Bind([actor_info \in {ReadInfos(info_count.r, U32Val(info_count.v), <<>>)} |->
    IF ~actor_info.ok THEN Fail(actor_info.r) ELSE
    Bind([destroyed_count \in {read_uint32(actor_info.r)} |->
    IF ~destroyed_count.ok THEN Fail(destroyed_count.r) ELSE
    Bind([destroyed \in {ReadDestroyed(destroyed_count.r,
                                       U32Val(destroyed_count.v), <<>>)} |->
    IF ~destroyed.ok THEN Fail(destroyed.r)
    ELSE Ok([actor_info |-> actor_info.v, destroyed |-> destroyed.v],
            destroyed.r)])])])])])

\* reader.position = dynamic_offset; the dynamic data, given to the actors
ReadDynamicSection(r, dynamic_offset, actors) ==
    Bind([at_dynamic \in {SetReaderPosition(r, dynamic_offset)} |->
    IF ~at_dynamic.ok THEN Fail(at_dynamic.r) ELSE
    Bind([dynamic_count \in {read_uint32(at_dynamic.r)} |->
    IF ~dynamic_count.ok THEN Fail(dynamic_count.r)
    ELSE ReadDynamicData(dynamic_count.r, U32Val(dynamic_count.v), actors)])])

\* PersistenceContainer.read
PersistenceContainer_read(r) ==
    Bind([header \in {ReadContainerHeader(r)} |->
    IF ~header.ok THEN Fail(header.r) ELSE
    Bind([index \in {ReadIndexSection(header.r, header.v.index_offset)} |->
    IF ~index.ok THEN Fail(index.r) ELSE
    Bind([actors \in {ReadActors(index.r, index.v.actor_info, 1, <<>>)} |->
    IF ~actors.ok THEN Fail(actors.r) ELSE
    Bind([with_dynamic \in {ReadDynamicSection(actors.r, header.v.dynamic_offset,
                                               actors.v)} |->
    IF ~with_dynamic.ok THEN Fail(with_dynamic.r)
    ELSE Ok([version |-> header.v.version, destroyed |-> index.v.destroyed,
             actors |-> with_dynamic.v],
            with_dynamic.r)])])])])

VARIABLES
    fs_value,    \* the str | None handed to write_fstring
    fs_prefix,   \* what the writer held before the call
    fs_writer,   \* the Writer
    fs_result,   \* what read_fstring gave on the bytes written: [ok, v, r]
    fs_pc,       \* "start", "written", "read"
    crc_data,    \* the bytearray given to update_crc32 / verify_crc32
    crc_result,  \* the last verify_crc32 of crc_data: "none", "true", "false"
    crc_fresh,   \* update_crc32 ran and no byte of [4..) was edited since
    crc_clean,   \* update_crc32 ran and no byte was edited since
    crc_edits,   \* the number of edits so far
    env_data,    \* the decompressed buffer D
    env_comp,    \* compress_save(D): [ok, err, v], and as data the buffer
                 \* that was passed, as it is after the call
    env_out,     \* decompress_save(compress_save(D)): [ok, err, v]
    env_pc,      \* "data", "compressed", "decompressed"
    env_faults,  \* the chunks of env_comp damaged since compress_save: {[chunk, kind]}
    env_edits,   \* the number of edits of D so far
    doc_input,   \* the decompressed image given to from_decompressed
    doc,         \* the SaveFile in memory
    doc_loaded,  \* the SaveFile as from_decompressed returned it
    doc_base,    \* to_decompressed() of the SaveFile as loaded
    doc_muts,    \* the mutations made since the load, in order
    doc_out,     \* what to_decompressed returned, and the sized properties written
    doc_re,      \* from_decompressed of those bytes: [ok, v]
    doc_out2,    \* to_decompressed() of that SaveFile
    doc_pc,      \* "input", "loaded", "serialized", "reparsed", "done"
    doc_writes,  \* the number of to_decompressed() calls on the SaveFile so far
    ctr,         \* the PersistenceContainer in memory
    ctr_out,     \* the bytes container.write wrote, the writer position, the log
    ctr_re,      \* PersistenceContainer.read of those bytes: [ok, v]
    ctr_out2,    \* what container.write wrote for the container read
    ctr_pc,      \* "memory", "written", "read", "rewritten"
    val_input,   \* the bytes given to the read of a value, and the names table
    val,         \* the value in memory: [ok, v, r] of its read, then edited
    val_read,    \* [ok, v, r] as the read returned it
    val_out,     \* the bytes the write of the value wrote, the names after it
    val_pc,      \* "input", "read", "written"
    rd,          \* the Reader: its data and its position
    rd_last,     \* the last call on the Reader: [op, arg, ok, v, before]
    rd_ops       \* the number of calls so far

fsVars == <<fs_value, fs_prefix, fs_writer, fs_result, fs_pc>>
crcVars == <<crc_data, crc_result, crc_fresh, crc_clean, crc_edits>>
envVars == <<env_data, env_comp, env_out, env_pc, env_faults, env_edits>>
docVars == <<doc_input, doc, doc_loaded, doc_base, doc_muts, doc_out, doc_re, doc_out2,
            doc_pc, doc_writes>>
ctrVars == <<ctr, ctr_out, ctr_re, ctr_out2, ctr_pc>>
valVars == <<val_input, val, val_read, val_out, val_pc>>
rdVars == <<rd, rd_last, rd_ops>>
vars == <<fsVars, crcVars, envVars, docVars, ctrVars, valVars, rdVars>>
\* what the steps of one part leave alone
notFs == <<crcVars, envVars, docVars, ctrVars, valVars, rdVars>>
notCrc == <<fsVars, envVars, docVars, ctrVars, valVars, rdVars>>
notEnv == <<fsVars, crcVars, docVars, ctrVars, valVars, rdVars>>
notDoc == <<fsVars, crcVars, envVars, ctrVars, valVars, rdVars>>
notCtr == <<fsVars, crcVars, envVars, docVars, valVars, rdVars>>
notVal == <<fsVars, crcVars, envVars, docVars, ctrVars, rdVars>>
notRd == <<fsVars, crcVars, envVars, docVars, ctrVars, valVars>>

SeqsUpTo(S, n) == UNION {[1..k -> S] : k \in 0..n}

(***************************************************************************)
(* FString: one write_fstring on a Writer, then one read_fstring on the    *)
(* bytes it wrote.                                                         *)
(***************************************************************************)
\* 'A', DEL, U+0080, e-acute, and a code point outside the BMP
FsAlphabet == {65, 127, 128, 233, 66000}
FsValues == {NONE} \cup {Some(s) : s \in SeqsUpTo(FsAlphabet, MaxStrLen)}

FsIdle ==
    /\ fs_value = NONE
    /\ fs_prefix = <<>>
    /\ fs_writer = NewWriter
    /\ fs_result = Fail(NewReader(<<>>))
    /\ fs_pc = "idle"

FsInit ==
    /\ fs_value \in FsValues
    /\ fs_prefix \in {<<>>, <<7, 7>>}
    /\ fs_writer = write_bytes(NewWriter, fs_prefix)
    /\ fs_result = Fail(NewReader(<<>>))
    /\ fs_pc = "start"

FsWrite ==
    /\ fs_pc = "start"
    /\ fs_writer' = write_fstring(fs_writer, fs_value)
    /\ fs_pc' = "written"
    /\ UNCHANGED <<fs_value, fs_prefix, fs_result, notFs>>

FsWritten == SubSeq(to_bytes(fs_writer), Len(fs_prefix) + 1, Len(to_bytes(fs_writer)))

FsRead ==
    /\ fs_pc = "written"
    /\ fs_result' = read_fstring(NewReader(FsWritten))
    /\ fs_pc' = "read"
    /\ UNCHANGED <<fs_value, fs_prefix, fs_writer, notFs>>

(***************************************************************************)
(* CRC32 of a decompressed buffer: in-place edits, update_crc32 and        *)
(* verify_crc32.                                                           *)
(***************************************************************************)
CrcBytes == {0, 255}

CrcIdle ==
    /\ crc_data = <<>>
    /\ crc_result = "none"
    /\ crc_fresh = FALSE
    /\ crc_clean = FALSE
    /\ crc_edits = 0

CrcInit ==
    /\ crc_data \in UNION {[1..n -> CrcBytes] : n \in 4..MaxCrcLen}
    /\ crc_result = "none"
    /\ crc_fresh = FALSE
    /\ crc_clean = FALSE
    /\ crc_edits = 0

\* data[i] = v, for the byte at offset i
CrcEdit(i, v) ==
    /\ crc_edits < MaxCrcEdits
    /\ i < Len(crc_data)
    /\ crc_data' = [crc_data EXCEPT ![i + 1] = v]
    /\ crc_result' = "none"
    /\ crc_fresh' = (crc_fresh /\ i < 4)
    /\ crc_clean' = FALSE
    /\ crc_edits' = crc_edits + 1
    /\ UNCHANGED notCrc

CrcUpdate ==
    /\ crc_data' = update_crc32(crc_data)
    /\ crc_result' = "none"
    /\ crc_fresh' = TRUE
    /\ crc_clean' = TRUE
    /\ UNCHANGED <<crc_edits, notCrc>>

CrcVerify ==
    /\ crc_result' = IF verify_crc32(crc_data) THEN "true" ELSE "false"
    /\ UNCHANGED <<crc_data, crc_fresh, crc_clean, crc_edits, notCrc>>

(***************************************************************************)
(* The envelope: a decompressed buffer D, in-place edits of it followed by *)
(* update_crc32, compress_save(D), and decompress_save of the result.      *)
(***************************************************************************)
\* a decompressed buffer of n bytes: the CRC32, decompressed_size = n,
\* version 9, and a body
EnvBuffer(n) ==
    update_crc32(Zeros(4) \o I32(n) \o I32(EXPECTED_VERSION)
                 \o [i \in 1..(n - 12) |-> (i * 7) % 251])

\* one partial chunk; chunks full to the byte; a last chunk of one byte
EnvLens ==
    (12..MaxEnvSmall)
    \cup {8 + k * CHUNK_MAX_SIZE : k \in 1..MaxEnvChunks}
    \cup {9 + CHUNK_MAX_SIZE}

EnvEditBytes == {0, 128, 255}
EnvEditOffsets(n) == {4, 7, 8, 11, n - 1}

NoResult == Raise("not run")

EnvIdle ==
    /\ env_data = <<>>
    /\ env_comp = NoResult
    /\ env_out = NoResult
    /\ env_pc = "idle"
    /\ env_faults = {}
    /\ env_edits = 0

EnvInit ==
    /\ env_data \in {EnvBuffer(n) : n \in EnvLens}
    /\ env_comp = NoResult
    /\ env_out = NoResult
    /\ env_pc = "data"
    /\ env_faults = {}
    /\ env_edits = 0

\* data[i] = v; update_crc32(data)
EnvEdit(i, v) ==
    /\ env_pc = "data"
    /\ env_edits < MaxEnvEdits
    /\ Len(env_data) <= MaxEnvSmall
    /\ i < Len(env_data)
    /\ env_data' = update_crc32([env_data EXCEPT ![i + 1] = v])
    /\ env_edits' = env_edits + 1
    /\ UNCHANGED <<env_comp, env_out, env_pc, env_faults, notEnv>>

\* compressed = compress_save(data)
EnvCompress ==
    /\ env_pc = "data"
    /\ env_comp' = compress_save(env_data)
    /\ env_pc' = "compressed"
    /\ UNCHANGED <<env_data, env_out, env_faults, env_edits, notEnv>>

\* the offset of the header of chunk k (from 1) of a compressed file
RECURSIVE ChunkStart(_, _, _)
ChunkStart(data, offset, k) ==
    IF k = 1 THEN offset
    ELSE ChunkStart(data,
             offset + 49 + U64Val(read_chunk_header(data, offset).compressed_size),
             k - 1)

RECURSIVE ChunkCount(_, _)
ChunkCount(data, offset) ==
    IF ~(offset < Len(data)) THEN 0
    ELSE 1 + ChunkCount(data,
                 offset + 49 + U64Val(read_chunk_header(data, offset).compressed_size))

EnvFaultKinds == {"magic", "compressor", "inflate", "length"}

\* a compressed file with one field of the chunk at offset damaged: the
\* first byte of the magic, the compressor byte, the first byte of the
\* zlib stream, the low byte of the declared decompressed_size
Damaged(data, offset, kind) ==
    CASE kind = "magic" -> pack_into(data, offset, <<0>>)
      [] kind = "compressor" -> pack_into(data, offset + 16, <<2>>)
      [] kind = "inflate" -> pack_into(data, offset + 49, <<0>>)
      [] kind = "length" ->
             pack_into(data, offset + 25, <<(data[offset + 26] + 1) % 256>>)

\* the file on disk is damaged in chunk k before it is loaded
EnvCorrupt(k, kind) ==
    /\ env_pc = "compressed"
    /\ env_comp.ok
    /\ Cardinality(env_faults) < MaxEnvFaults
    /\ k <= ChunkCount(env_comp.v, 12)
    /\ [chunk |-> k, kind |-> kind] \notin env_faults
    /\ env_comp' = [env_comp EXCEPT
                        !.v = Damaged(@, ChunkStart(env_comp.v, 12, k), kind)]
    /\ env_faults' = env_faults \cup {[chunk |-> k, kind |-> kind]}
    /\ UNCHANGED <<env_data, env_out, env_pc, env_edits, notEnv>>

EnvDecompress ==
    /\ env_pc = "compressed"
    /\ env_comp.ok
    /\ env_out' = decompress_save(env_comp.v)
    /\ env_pc' = "decompressed"
    /\ UNCHANGED <<env_data, env_comp, env_faults, env_edits, notEnv>>

(***************************************************************************)
(* The document: a decompressed image is loaded, the SaveFile is mutated   *)
(* in memory, serialized with to_decompressed, the bytes are parsed again  *)
(* and the result is serialized again.                                     *)
(***************************************************************************)
DocTexts == <<N_Qx, N_Baz, N_Eacute>>

NoDoc == <<>>
\* nothing was serialized; at holds, for each call of to_decompressed on the
\* document so far, the number of mutations made before it
NoOutput == [data |-> <<>>, sized |-> <<>>, log |-> <<>>, at |-> <<>>]

DocIdle ==
    /\ doc_input = <<>>
    /\ doc = NoDoc
    /\ doc_loaded = NoDoc
    /\ doc_base = <<>>
    /\ doc_muts = <<>>
    /\ doc_out = NoOutput
    /\ doc_re = [ok |-> FALSE, v |-> <<>>]
    /\ doc_out2 = <<>>
    /\ doc_pc = "idle"
    /\ doc_writes = 0

DocInit ==
    /\ doc_input \in {DocInputs[i] : i \in 1..Len(DocInputs)}
    /\ doc = NoDoc
    /\ doc_loaded = NoDoc
    /\ doc_base = <<>>
    /\ doc_muts = <<>>
    /\ doc_out = NoOutput
    /\ doc_re = [ok |-> FALSE, v |-> <<>>]
    /\ doc_out2 = <<>>
    /\ doc_pc = "input"
    /\ doc_writes = 0

\* save = SaveFile.from_decompressed(data); doc_base is what to_decompressed
\* returns for the document as loaded
DocLoad ==
    /\ doc_pc = "input"
    /\ \E save \in {from_decompressed(doc_input)} :
       /\ save.ok
       /\ doc' = save.v
       /\ doc_loaded' = save.v
       /\ doc_base' = to_decompressed(save.v).data
    /\ doc_pc' = "loaded"
    /\ UNCHANGED <<doc_writes, doc_input, doc_muts, doc_out, doc_re, doc_out2, notDoc>>

Mutation(op, path, old, new, ret) ==
    [op |-> op, path |-> path, old |-> old, new |-> new, ret |-> ret]

\* save.replace_name(old_name, new_name)
DocReplaceName(old_name, new_name) ==
    /\ doc_pc = "loaded"
    /\ Len(doc_muts) < MaxDocMuts
    /\ \E r \in {replace_name(doc, old_name, new_name)} :
       /\ doc' = r.self
       /\ doc_muts' = Append(doc_muts,
                             Mutation("replace_name", <<>>, old_name, new_name, r.ret))
    /\ UNCHANGED <<doc_writes, doc_input, doc_loaded, doc_base, doc_out, doc_re, doc_out2, doc_pc,
                   notDoc>>

\* fname.name = text, for the k-th FName value of the document
DocLeafEdit(k, text) ==
    /\ doc_pc = "loaded"
    /\ Len(doc_muts) < MaxDocMuts
    /\ k <= Len(Sites(doc, "name"))
    /\ \E path \in {Sites(doc, "name")[k]} :
       /\ doc' = SetAt(doc, path \o <<"name">>, text)
       /\ doc_muts' = Append(doc_muts,
                             Mutation("leaf", path, GetAt(doc, path).name, text, TRUE))
    /\ UNCHANGED <<doc_writes, doc_input, doc_loaded, doc_base, doc_out, doc_re, doc_out2, doc_pc,
                   notDoc>>

\* prop.value = text, for the k-th StrProperty of the document
DocStrEdit(k, text) ==
    /\ doc_pc = "loaded"
    /\ Len(doc_muts) < MaxDocMuts
    /\ k <= Len(Sites(doc, "str"))
    /\ \E path \in {Sites(doc, "str")[k]} :
       /\ doc' = SetAt(doc, path, Some(text))
       /\ doc_muts' = Append(doc_muts, Mutation("str", path, GetAt(doc, path), text, TRUE))
    /\ UNCHANGED <<doc_writes, doc_input, doc_loaded, doc_base, doc_out, doc_re, doc_out2, doc_pc,
                   notDoc>>

\* prop.value.items.append(FName(name=text)), for the k-th array of names
DocAppendItem(k, text) ==
    /\ doc_pc = "loaded"
    /\ Len(doc_muts) < MaxDocMuts
    /\ k <= Len(Sites(doc, "array"))
    /\ \E path \in {Sites(doc, "array")[k] \o <<"items">>} :
       /\ doc' = SetAt(doc, path, Append(GetAt(doc, path), FName(text, 0, NONE)))
       /\ doc_muts' = Append(doc_muts, Mutation("append", path, <<>>, text, TRUE))
    /\ UNCHANGED <<doc_writes, doc_input, doc_loaded, doc_base, doc_out, doc_re, doc_out2, doc_pc,
                   notDoc>>

\* prop.value.entries.append((FName(name=text), 7)), for the k-th map from
\* names to integers
DocAppendEntry(k, text) ==
    /\ doc_pc = "loaded"
    /\ Len(doc_muts) < MaxDocMuts
    /\ k <= Len(Sites(doc, "map"))
    /\ \E path \in {Sites(doc, "map")[k] \o <<"entries">>} :
       /\ doc' = SetAt(doc, path, Append(GetAt(doc, path),
                                         [key |-> FName(text, 0, NONE), value |-> I32(7)]))
       /\ doc_muts' = Append(doc_muts, Mutation("entry", path, <<>>, text, TRUE))
    /\ UNCHANGED <<doc_writes, doc_input, doc_loaded, doc_base, doc_out, doc_re, doc_out2, doc_pc,
                   notDoc>>

\* data = save.to_decompressed()
DocSerialize ==
    /\ doc_pc = "loaded"
    /\ \E out \in {to_decompressed(doc)} :
       /\ doc_out' = [data |-> out.data, sized |-> out.sized, log |-> out.log,
                       at |-> Append(doc_out.at, Len(doc_muts))]
       /\ doc' = out.self
    /\ doc_writes' = doc_writes + 1
    /\ doc_pc' = "serialized"
    /\ UNCHANGED <<doc_input, doc_loaded, doc_base, doc_muts, doc_re, doc_out2, notDoc>>

\* data = save.to_decompressed(), after which the SaveFile is edited further
DocWrite ==
    /\ doc_pc = "loaded"
    /\ doc_writes < MaxDocWrites
    /\ \E out \in {to_decompressed(doc)} :
       /\ doc_out' = [data |-> out.data, sized |-> out.sized, log |-> out.log,
                       at |-> Append(doc_out.at, Len(doc_muts))]
       /\ doc' = out.self
    /\ doc_writes' = doc_writes + 1
    /\ UNCHANGED <<doc_input, doc_loaded, doc_base, doc_muts, doc_re, doc_out2, doc_pc,
                   notDoc>>

\* SaveFile.from_decompressed(data)
DocReparse ==
    /\ doc_pc = "serialized"
    /\ doc_re' = from_decompressed(doc_out.data)
    /\ doc_pc' = "reparsed"
    /\ UNCHANGED <<doc_writes, doc_input, doc, doc_loaded, doc_base, doc_muts, doc_out, doc_out2,
                   notDoc>>

\* SaveFile.from_decompressed(data).to_decompressed()
DocReserialize ==
    /\ doc_pc = "reparsed"
    /\ doc_re.ok
    /\ doc_out2' = to_decompressed(doc_re.v).data
    /\ doc_pc' = "done"
    /\ UNCHANGED <<doc_writes, doc_input, doc, doc_loaded, doc_base, doc_muts, doc_out, doc_re,
                   notDoc>>

(***************************************************************************)
(* A PersistenceContainer in memory: actors and destroyed ids are added,   *)
(* the container is written to a Writer at position 0 and read again from  *)
(* the bytes written.                                                      *)
(***************************************************************************)
\* a SaveData as Actor.read gives it: no PackageVersion, no asset path
Archive(objects) ==
    [package_version |-> NONE, save_game_class_path |-> NONE,
     name_table_offset |-> I64(0), version |-> U32(3),
     objects_offset |-> I64(0), objects |-> objects, names_table |-> DocNames]

\* an actor without a transform; one with a transform; one with dynamic
\* data and an archive whose write adds a name to its names table
ActorPlain ==
    [has_transform |-> U32(0), transform |-> NONE,
     archive |-> Some(Archive(<<RootObject(0, <<PropInt>>)>>)),
     dynamic_data |-> NONE]
ActorPlaced ==
    [has_transform |-> U32(1), transform |-> Some(FTransform_identity),
     archive |-> Some(Archive(<<RootObject(0, <<PropName, PropStr>>)>>)),
     dynamic_data |-> NONE]
ActorMoved(unique_id) ==
    [has_transform |-> U32(0), transform |-> NONE,
     archive |-> Some(Archive(<<RootObject(0,
                     <<Prop(N_Foo, S_NameProperty, 2, FName(N_Qx, 4, NONE))>>)>>)),
     dynamic_data |-> Some([unique_id |-> unique_id,
                            transform |-> FTransform_identity,
                            class_path |-> Some(N_Path)])]

CtrIds == {1, 2}
CtrActors(unique_id) == <<ActorPlain, ActorPlaced, ActorMoved(unique_id)>>

NoContainer == [version |-> U32(0), destroyed |-> <<>>, actors |-> <<>>]
NoWritten == [data |-> <<>>, position |-> 0, log |-> <<>>]

CtrIdle ==
    /\ ctr = NoContainer
    /\ ctr_out = NoWritten
    /\ ctr_re = [ok |-> FALSE, v |-> <<>>]
    /\ ctr_out2 = NoWritten
    /\ ctr_pc = "idle"

\* PersistenceContainer(version=...)
CtrInit ==
    /\ ctr \in {[version |-> U32(v), destroyed |-> <<>>, actors |-> <<>>] : v \in {1, 2}}
    /\ ctr_out = NoWritten
    /\ ctr_re = [ok |-> FALSE, v |-> <<>>]
    /\ ctr_out2 = NoWritten
    /\ ctr_pc = "memory"

\* container.actors.append((unique_id, actor))
CtrAddActor(unique_id, actor) ==
    /\ ctr_pc = "memory"
    /\ Len(ctr.actors) < MaxCtrActors
    /\ ctr' = [ctr EXCEPT !.actors = Append(@, [unique_id |-> unique_id,
                                               actor |-> actor])]
    /\ UNCHANGED <<ctr_out, ctr_re, ctr_out2, ctr_pc, notCtr>>

\* container.destroyed.append(unique_id)
CtrDestroy(unique_id) ==
    /\ ctr_pc = "memory"
    /\ Len(ctr.destroyed) < MaxCtrDestroyed
    /\ ctr' = [ctr EXCEPT !.destroyed = Append(@, unique_id)]
    /\ UNCHANGED <<ctr_out, ctr_re, ctr_out2, ctr_pc, notCtr>>

\* writer = Writer(); container.write(writer)
CtrWrite ==
    /\ ctr_pc = "memory"
    /\ \E out \in {PersistenceContainer_write(NewWriter, ctr)} :
       /\ ctr_out' = [data |-> to_bytes(out.w), position |-> out.w.pos,
                      log |-> out.log]
       /\ ctr' = out.self
    /\ ctr_pc' = "written"
    /\ UNCHANGED <<ctr_re, ctr_out2, notCtr>>

\* PersistenceContainer.read(Reader(writer.to_bytes()), ctx)
CtrRead ==
    /\ ctr_pc = "written"
    /\ \E re \in {PersistenceContainer_read(NewReader(ctr_out.data))} :
          ctr_re' = [ok |-> re.ok, v |-> re.v]
    /\ ctr_pc' = "read"
    /\ UNCHANGED <<ctr, ctr_out, ctr_out2, notCtr>>

\* writer = Writer(); container.write(writer), for the container that was read
CtrRewrite ==
    /\ ctr_pc = "read"
    /\ ctr_re.ok
    /\ \E out \in {PersistenceContainer_write(NewWriter, ctr_re.v)} :
       /\ ctr_out2' = [data |-> to_bytes(out.w), position |-> out.w.pos,
                       log |-> out.log]
       /\ ctr_re' = [ctr_re EXCEPT !.v = out.self]
    /\ ctr_pc' = "rewritten"
    /\ UNCHANGED <<ctr, ctr_out, notCtr>>

(***************************************************************************)
(* Values: one PropertyBag, one Component or one tick-valued struct value  *)
(* is read from bytes, edited in memory and written.                       *)
(***************************************************************************)
\* the bytes PropertyBag.write writes for a bag of properties, with DocNames
BagImage(properties) ==
    to_bytes(PropertyBag_write(NewStream(NewWriter, SerializationContext(DocNames, NONE)),
                               [properties |-> properties]).w)

\* the bytes Component.write writes for a component of one property
ComponentImage(extra_data) ==
    to_bytes(Component_write(NewStream(NewWriter, SerializationContext(DocNames, NONE)),
                             [component_key |-> N_Key,
                              properties |-> Some([properties |-> <<PropInt>>]),
                              extra_data |-> extra_data]).w)

\* where a Property holds its size, where the ArrayStructProperty of such a
\* property holds its own, and where a Component with the key N_Key holds
\* its length
SizeOffset == 4
ElementsSizeOffset == 23
LengthOffset == 6

ValInput(kind, data) == [kind |-> kind, data |-> data, names_table |-> DocNames]

\* the image with the uint32 at an offset raised by delta, when that is a uint32
Resized(data, offset, delta) ==
    LET size == U32Val(unpack_from(data, offset, 4))
    IN  IF size + delta < 0 THEN data ELSE pack_into(data, offset, U32(size + delta))

\* the first properties of the bags, each followed by PropInt
ValProps ==
    <<PropStruct, PropGuid, PropNameArray, PropStructArray, PropUnknown, PropUnknownEmpty,
      PropStr, PropInt>>
ValDeltas == {-1, 0, 1}
ValExtras == <<NONE, Some(<<0, 0>>), Some(<<7>>)>>
\* the bytes that follow a component in its buffer
ValTrail == <<0, 9>>
ValTickKinds == {"Timespan", "DateTime"}

ValInputs ==
    {ValInput("PropertyBag", Resized(BagImage(<<ValProps[k], PropInt>>), SizeOffset, d)) :
        k \in 1..Len(ValProps), d \in ValDeltas}
    \cup {ValInput("PropertyBag",
                   Resized(BagImage(<<PropStructArray, PropInt>>), ElementsSizeOffset, d)) :
             d \in ValDeltas}
    \cup {ValInput("Component",
                   Resized(ComponentImage(ValExtras[k]), LengthOffset, d) \o ValTrail) :
             k \in 1..Len(ValExtras), d \in -1..(Len(ValTrail) + 1)}
    \cup {ValInput(kind, I64Signed(t)) : kind \in ValTickKinds, t \in (-MaxTicks)..MaxTicks}

NoValue == [ok |-> FALSE, v |-> <<>>, r |-> NewReader(<<>>)]
NoValOut == [data |-> <<>>, names_table |-> <<>>, sized |-> <<>>]

ValIdle ==
    /\ val_input = ValInput("idle", <<>>)
    /\ val = NoValue
    /\ val_read = NoValue
    /\ val_out = NoValOut
    /\ val_pc = "idle"

ValInit ==
    /\ val_input \in ValInputs
    /\ val = NoValue
    /\ val_read = NoValue
    /\ val_out = NoValOut
    /\ val_pc = "input"

StructTypeName(kind) == IF kind = "Timespan" THEN S_Timespan ELSE S_DateTime

\* PropertyBag.read(reader, ctx), Component.read(reader, ctx) or
\* read_struct_value(reader, ctx, type_name) on a Reader of the input
ValRead ==
    /\ val_pc = "input"
    /\ \E r \in {NewReader(val_input.data)},
          ctx \in {SerializationContext(val_input.names_table, NONE)} :
       \E value \in {IF val_input.kind = "PropertyBag" THEN PropertyBag_read(r, ctx)
                     ELSE IF val_input.kind = "Component" THEN Component_read(r, ctx)
                     ELSE read_struct_value(r, ctx, StructTypeName(val_input.kind))} :
          /\ val' = value
          /\ val_read' = value
    /\ val_pc' = "read"
    /\ UNCHANGED <<val_input, val_out, notVal>>

\* prop.value = text, for the k-th property of the bag, a StrProperty
ValStrEdit(k, text) ==
    /\ val_pc = "read"
    /\ val.ok
    /\ val_input.kind = "PropertyBag"
    /\ k <= Len(val.v.properties)
    /\ val.v.properties[k].type_name.name = S_StrProperty
    /\ val.v.properties[k].value # Some(text)
    /\ val' = [val EXCEPT !.v.properties[k].value = Some(text)]
    /\ UNCHANGED <<val_input, val_read, val_out, val_pc, notVal>>

\* prop.value.items.append(prop.value.items[-1]), for the k-th property of
\* the bag, an array
ValAppendItem(k) ==
    /\ val_pc = "read"
    /\ val.ok
    /\ val_input.kind = "PropertyBag"
    /\ k <= Len(val.v.properties)
    /\ val.v.properties[k].type_name.name = S_ArrayProperty
    /\ Len(val.v.properties[k].value.items) \in 1..(MaxValItems - 1)
    /\ val' = [val EXCEPT !.v.properties[k].value.items = Append(@, @[Len(@)])]
    /\ UNCHANGED <<val_input, val_read, val_out, val_pc, notVal>>

\* value.write(writer, ctx) or write_struct_value(writer, ctx, type_name,
\* value) on a new Writer
ValWrite ==
    /\ val_pc = "read"
    /\ val.ok
    /\ \E st \in {NewStream(NewWriter, SerializationContext(val_input.names_table, NONE))} :
       \E s1 \in {IF val_input.kind = "PropertyBag" THEN PropertyBag_write(st, val.v)
                  ELSE IF val_input.kind = "Component" THEN Component_write(st, val.v)
                  ELSE write_struct_value(st, StructTypeName(val_input.kind), val.v)} :
          val_out' = [data |-> to_bytes(s1.w), names_table |-> s1.ctx.names_table,
                      sized |-> s1.sized]
    /\ val_pc' = "written"
    /\ UNCHANGED <<val_input, val, val_read, notVal>>

(***************************************************************************)
(* The Reader: one Reader over a buffer, on which the operations of        *)
(* src/editor/io/reader.py are called in any order.                        *)
(***************************************************************************)
\* Reader.peek_bytes
peek_bytes(r, count) ==
    IF r.pos + count > Len(r.data) THEN Fail(r)
    ELSE Ok(PySlice(r.data, r.pos, r.pos + count), r)

\* Reader.peek_uint32: struct.unpack('<I') of the four bytes peeked
peek_uint32(r) ==
    Bind([b \in {peek_bytes(r, 4)} |-> IF b.ok /\ Len(b.v) = 4 THEN b ELSE Fail(b.r)])

\* Reader.skip: the position moves before it is compared with the size
skip(r, count) ==
    Bind([moved \in {[r EXCEPT !.pos = r.pos + count]} |->
         IF moved.pos > Len(moved.data) THEN Fail(moved) ELSE Ok(<<>>, moved)])

\* a typed read by its name
TypedRead(op, r) ==
    IF op = "read_uint8" THEN read_uint8(r)
    ELSE IF op = "read_uint16" THEN read_uint16(r)
    ELSE IF op = "read_int32" THEN read_int32(r)
    ELSE read_uint64(r)
TypedReads == {"read_uint8", "read_uint16", "read_int32", "read_uint64"}
TypedWidth(op) ==
    IF op = "read_uint8" THEN 1 ELSE IF op = "read_uint16" THEN 2
    ELSE IF op = "read_int32" THEN 4 ELSE 8

\* the buffers: every one of up to MaxRdLen bytes of RdBytes, an FString
\* 'A', one with a wrong terminator, an empty UTF-16 FString and eight bytes
RdBytes == {0, 65}
RdBuffers ==
    SeqsUpTo(RdBytes, MaxRdLen)
    \cup {<<2, 0, 0, 0, 65, 0>>, <<2, 0, 0, 0, 65, 1>>, <<255, 255, 255, 255, 0, 0>>,
          <<1, 2, 3, 4, 5, 6, 7, 8>>}
\* the counts given to read_bytes, peek_bytes and skip, and the positions
\* assigned
RdCounts == (-1)..MaxRdCount
RdPositions == (-1)..(MaxRdLen + 1)

Called(op, arg, res, before) ==
    [op |-> op, arg |-> arg, ok |-> res.ok, v |-> res.v, before |-> before]

RdIdle ==
    /\ rd = NewReader(<<>>)
    /\ rd_last = Called("idle", 0, Fail(NewReader(<<>>)), 0)
    /\ rd_ops = 0

RdInit ==
    /\ rd \in {NewReader(data) : data \in RdBuffers}
    /\ rd_last = Called("new", 0, Ok(<<>>, rd), 0)
    /\ rd_ops = 0

\* one call on the Reader: the Reader as the call left it, and what it returned
RdCall(op, arg, res) ==
    /\ rd_ops < MaxRdOps
    /\ rd' = res.r
    /\ rd_last' = Called(op, arg, res, rd.pos)
    /\ rd_ops' = rd_ops + 1
    /\ UNCHANGED notRd

RdReadBytes(count) == RdCall("read_bytes", count, read_bytes(rd, count))
RdReadTyped(op) == RdCall(op, TypedWidth(op), TypedRead(op, rd))
RdReadFString == RdCall("read_fstring", 0, read_fstring(rd))
RdPeekBytes(count) == RdCall("peek_bytes", count, peek_bytes(rd, count))
RdPeekUint32 == RdCall("peek_uint32", 4, peek_uint32(rd))
RdSkip(count) == RdCall("skip", count, skip(rd, count))
\* reader.position = value
RdSetPosition(value) == RdCall("position", value, SetReaderPosition(rd, value))

InitFString == FsInit /\ CrcIdle /\ EnvIdle /\ DocIdle /\ CtrIdle /\ ValIdle /\ RdIdle
NextFString == FsWrite \/ FsRead
SpecFString == InitFString /\ [][NextFString]_vars

InitCrc == CrcInit /\ FsIdle /\ EnvIdle /\ DocIdle /\ CtrIdle /\ ValIdle /\ RdIdle
NextCrc ==
    \/ \E i \in 0..(MaxCrcLen - 1), v \in CrcBytes : CrcEdit(i, v)
    \/ CrcUpdate
    \/ CrcVerify
SpecCrc == InitCrc /\ [][NextCrc]_vars

InitEnvelope == EnvInit /\ FsIdle /\ CrcIdle /\ DocIdle /\ CtrIdle /\ ValIdle /\ RdIdle
NextEnvelope ==
    \/ \E i \in EnvEditOffsets(Len(env_data)), v \in EnvEditBytes : EnvEdit(i, v)
    \/ EnvCompress
    \/ \E k \in 1..(MaxEnvChunks + 1), kind \in EnvFaultKinds : EnvCorrupt(k, kind)
    \/ EnvDecompress
SpecEnvelope == InitEnvelope /\ [][NextEnvelope]_vars

Init == DocInit /\ FsIdle /\ CrcIdle /\ EnvIdle /\ CtrIdle /\ ValIdle /\ RdIdle
Next ==
    \/ DocLoad
    \/ \E old_name \in {N_Foo, N_Bar, N_Qx}, new_name \in {N_Qx, N_Eacute, N_Bar} :
          DocReplaceName(old_name, new_name)
    \/ \E k \in 1..MaxDocSites, i \in 1..Len(DocTexts) : DocLeafEdit(k, DocTexts[i])
    \/ \E k \in 1..MaxDocSites, i \in 1..Len(DocTexts) : DocStrEdit(k, DocTexts[i])
    \/ \E k \in 1..MaxDocSites, i \in 1..Len(DocTexts) : DocAppendItem(k, DocTexts[i])
    \/ \E k \in 1..MaxDocSites, i \in 1..Len(DocTexts) : DocAppendEntry(k, DocTexts[i])
    \/ DocSerialize
    \/ DocReparse
    \/ DocReserialize
Spec == Init /\ [][Next]_vars

\* a SaveFile that is edited and written several times
NextWrites ==
    \/ DocLoad
    \/ \E k \in 1..MaxDocSites, i \in 1..Len(DocTexts) : DocLeafEdit(k, DocTexts[i])
    \/ DocWrite
SpecWrites == Init /\ [][NextWrites]_vars

InitContainer == CtrInit /\ FsIdle /\ CrcIdle /\ EnvIdle /\ DocIdle /\ ValIdle /\ RdIdle
NextContainer ==
    \/ \E id \in CtrIds, i \in 1..3 : CtrAddActor(U64(id), CtrActors(U64(id))[i])
    \/ \E id \in CtrIds : CtrDestroy(U64(id))
    \/ CtrWrite
    \/ CtrRead
    \/ CtrRewrite
SpecContainer == InitContainer /\ [][NextContainer]_vars

InitValue == ValInit /\ FsIdle /\ CrcIdle /\ EnvIdle /\ DocIdle /\ CtrIdle /\ RdIdle
NextValue ==
    \/ ValRead
    \/ \E k \in 1..2, i \in 1..Len(DocTexts) : ValStrEdit(k, DocTexts[i])
    \/ \E k \in 1..2 : ValAppendItem(k)
    \/ ValWrite
SpecValue == InitValue /\ [][NextValue]_vars

InitReader == RdInit /\ FsIdle /\ CrcIdle /\ EnvIdle /\ DocIdle /\ CtrIdle /\ ValIdle
NextReader ==
    \/ \E count \in RdCounts : RdReadBytes(count)
    \/ \E op \in TypedReads : RdReadTyped(op)
    \/ RdReadFString
    \/ \E count \in RdCounts : RdPeekBytes(count)
    \/ RdPeekUint32
    \/ \E count \in RdCounts : RdSkip(count)
    \/ \E value \in RdPositions : RdSetPosition(value)
SpecReader == InitReader /\ [][NextReader]_vars

(***************************************************************************)
(* Claims.                                                                 *)
(***************************************************************************)

\* C7 as stated: once update_crc32 has run, verify_crc32 returns True for
\* as long as no byte of [4..) is edited.
C7_VerifyUntilBodyEdit ==
    (crc_fresh /\ crc_result # "none") => crc_result = "true"

\* C7, amended: once update_crc32 has run, verify_crc32 returns True for as
\* long as no byte of the buffer, the stored checksum in [0..4) included, is
\* edited.
C7_VerifyUntilAnyEdit ==
    (crc_clean /\ crc_result # "none") => crc_result = "true"

\* C7 witness: bytes were edited, update_crc32 ran, verify_crc32 returned True.
C7_Witness ==
    crc_clean /\ crc_edits >= 2 /\ crc_result = "true" /\ Len(crc_data) > 4

C9_FStringRoundTrip ==
    fs_pc = "read" =>
        /\ fs_result.ok
        /\ fs_result.v = fs_value
        /\ fs_result.r.pos = Len(fs_result.r.data)

\* C6: decompress_save(compress_save(D)) returns D, for every decompressed
\* buffer D of at least 12 bytes, edited in place and re-checksummed or not.
C6_EnvelopeRoundTrip ==
    /\ env_pc = "compressed" => env_comp.ok
    /\ env_pc = "decompressed" => env_out.ok /\ env_out.v = env_data

(***************************************************************************)
(* Claims about the document                                               *)
(***************************************************************************)
\* the number of bytes write_fstring writes for a string
FStringLen(s) == Len(to_bytes(write_fstring(NewWriter, Some(s))))

\* replace_name returned True and is the only change since the load
OnlyReplaceName ==
    /\ Len(doc_muts) = 1
    /\ doc_muts[1].op = "replace_name"
    /\ doc_muts[1].ret

\* one leaf edit is the only change since the load
OnlyLeafEdit == Len(doc_muts) = 1 /\ doc_muts[1].op = "leaf"

\* C1: after replace_name(old, new) returned True and nothing else changed,
\* the serialized document parses again and every FName that read old in the
\* loaded document reads new in the re-parsed one.
C1_ReplaceNameRenamesEveryReference ==
    (doc_pc = "reparsed" /\ OnlyReplaceName) =>
        /\ doc_re.ok
        /\ LET sites == Sites(doc_loaded, "fname") IN
           \A k \in 1..Len(sites) :
               GetAt(doc_loaded, sites[k]).name = doc_muts[1].old
                   => GetAt(doc_re.v, sites[k]).name = doc_muts[1].new

\* C2: after replace_name(old, new) with no other change, to_decompressed()
\* is longer than that of the unmodified document by the encoded length of
\* new minus the encoded length of old, and the names table written has as
\* many entries as the one loaded.
C2_ReplaceNameLengthDifference ==
    (doc_pc = "serialized" /\ OnlyReplaceName) =>
        /\ Len(doc_out.data) - Len(doc_base)
               = FStringLen(doc_muts[1].new) - FStringLen(doc_muts[1].old)
        /\ Len(doc.save_data.names_table) = Len(doc_loaded.save_data.names_table)

\* C3: after the name of one FName was set to a text and the document was
\* serialized, the bytes parse again, the names table has one more entry,
\* the text, when the text was not in it and is unchanged otherwise, the
\* edited FName reads the text, and every FName the edit did not touch that
\* has the index the edited one was read with reads what it read before.
C3_LeafEditAllocatesSlot ==
    (doc_pc = "reparsed" /\ OnlyLeafEdit) =>
        /\ doc_re.ok
        /\ LET m == doc_muts[1]
               before == doc_loaded.save_data.names_table
               after == doc_re.v.save_data.names_table
               sites == Sites(doc_loaded, "fname")
           IN  /\ IF \E i \in 1..Len(before) : before[i] = m.new
                  THEN after = before
                  ELSE after = Append(before, m.new)
               /\ GetAt(doc_re.v, m.path).name = m.new
               /\ \A k \in 1..Len(sites) :
                      (/\ GetAt(doc, sites[k]) = GetAt(doc_loaded, sites[k])
                       /\ GetAt(doc_loaded, sites[k]).index
                              = GetAt(doc_loaded, m.path).index)
                          => GetAt(doc_re.v, sites[k]).name
                                 = GetAt(doc_loaded, sites[k]).name

\* C4: for a document b that from_decompressed parses, with
\* e1 = from_decompressed(b).to_decompressed(), from_decompressed(e1)
\* succeeds and from_decompressed(e1).to_decompressed() = e1.
C4_ReserializationFixedPoint ==
    Len(doc_muts) = 0 =>
        /\ doc_pc = "reparsed" => doc_re.ok
        /\ doc_pc = "done" => doc_out2 = doc_out.data

\* C5: after a load and any mutations, the buffer to_decompressed returns
\* passes verify_crc32 and its i32 at bytes [4..8) is the length of the buffer.
C5_ChecksumAndSizePatched ==
    doc_pc = "serialized" =>
        /\ verify_crc32(doc_out.data)
        /\ I32Val(unpack_from(doc_out.data, 4, 4)) = Len(doc_out.data)

\* C5 witness: a document was serialized after a replace_name and another
\* kind of mutation.
C5_Witness ==
    /\ doc_pc = "serialized"
    /\ Len(doc_muts) = 2
    /\ doc_muts[1].op = "replace_name" /\ doc_muts[1].ret
    /\ doc_muts[2].op \in {"leaf", "str", "append"}
    /\ verify_crc32(doc_out.data)

\* C10: for every StructProperty and ArrayProperty that Property.write
\* wrote, the u32 size field in the output is the number of bytes written
\* for the value, minus 19 for a StructProperty and minus 3 for an
\* ArrayProperty.
C10_SizeAdjustmentLaw ==
    doc_pc = "serialized" =>
        \A i \in 1..Len(doc_out.sized) :
            LET e == doc_out.sized[i] IN
            e.type_name \in {S_StructProperty, S_ArrayProperty} =>
                U32Val(unpack_from(doc_out.data, e.size_pos, 4))
                    = (e.end_pos - e.start_pos)
                      - (IF e.type_name = S_StructProperty THEN 19 ELSE 3)

\* C10 witness: an item was appended to a nested array, and the document
\* written has a StructProperty and an ArrayProperty whose size field differs
\* from the size the Property held in memory.
C10_Witness ==
    /\ doc_pc = "serialized"
    /\ \E j \in 1..Len(doc_muts) : doc_muts[j].op = "append"
    /\ \E i, j \in 1..Len(doc_out.sized) :
           /\ doc_out.sized[i].type_name = S_StructProperty
           /\ doc_out.sized[j].type_name = S_ArrayProperty
           /\ \A n \in {i, j} :
                  unpack_from(doc_out.data, doc_out.sized[n].size_pos, 4)
                      # doc_out.sized[n].held

\* C11: for every MapProperty that Property.write wrote, the u32 size field
\* in the output is the number of bytes written for the value of the map,
\* with no adjustment, also after entries were added to the map in memory.
C11_MapSizeIsPayloadLength ==
    doc_pc = "serialized" =>
        \A i \in 1..Len(doc_out.sized) :
            doc_out.sized[i].type_name = S_MapProperty =>
                U32Val(unpack_from(doc_out.data, doc_out.sized[i].size_pos, 4))
                    = doc_out.sized[i].end_pos - doc_out.sized[i].start_pos

\* the first index (from 1) of a name in a names table that holds it
FirstIndex(names_table, name) ==
    CHOOSE i \in 1..Len(names_table) :
        /\ names_table[i] = name
        /\ \A j \in 1..(i - 1) : names_table[j] # name

\* a step that is a call of replace_name
IsReplaceNameStep ==
    /\ Len(doc_muts') = Len(doc_muts) + 1
    /\ doc_muts'[Len(doc_muts')].op = "replace_name"

\* C13: replace_name(old, new) returns True exactly when old is an entry of
\* the names table; on True the slot at the first index of old holds new and
\* the length of the table and every other slot are unchanged; on False the
\* table is unchanged.
C13_ReplaceNameFrame ==
    [][IsReplaceNameStep =>
          LET m == doc_muts'[Len(doc_muts')]
              before == doc.save_data.names_table
              after == doc'.save_data.names_table
          IN  /\ m.ret <=> \E i \in 1..Len(before) : before[i] = m.old
              /\ m.ret =>
                     /\ Len(after) = Len(before)
                     /\ after[FirstIndex(before, m.old)] = m.new
                     /\ \A j \in 1..Len(before) :
                            j # FirstIndex(before, m.old) => after[j] = before[j]
              /\ ~m.ret => after = before]_vars

\* C13 witness: a replace_name that returned True on a table that holds the
\* old name twice, after which the second of the two slots still holds it,
\* and (in another run) a replace_name that returned False.
C13_Witness ==
    /\ Len(doc_muts) = 2
    /\ doc_muts[1].op = "replace_name" /\ doc_muts[1].ret
    /\ doc_muts[2].op = "replace_name" /\ doc_muts[2].ret
    /\ doc_muts[1].new = doc_muts[2].old
    /\ \E i \in 1..Len(doc.save_data.names_table) :
           doc.save_data.names_table[i] = doc_muts[2].old

\* C14: after SaveData.write, the OffsetInfo at the position of the
\* placeholder holds, as objects, the position where the count of the objects
\* table starts and, as names, the position where the count of the names
\* table starts, with end of OffsetInfo <= objects < names < end of output;
\* the patch changed neither the length of the output nor a byte outside the
\* 20 bytes of the OffsetInfo, and the writer is at the end of the output.
C14_OffsetInfoBackpatched ==
    doc_pc = "serialized" =>
        LET L == doc_out.log.layout
            data == doc_out.data
        IN  /\ L.data_position = L.offset_position + 20
            /\ I64Val(unpack_from(data, L.offset_position, 8)) = L.names_offset
            /\ I64Val(unpack_from(data, L.offset_position + 12, 8)) = L.objects_offset
            /\ I32Val(unpack_from(data, L.objects_offset, 4))
                   = Len(doc.save_data.objects)
            /\ I32Val(unpack_from(data, L.names_offset, 4))
                   = Len(doc.save_data.names_table)
            /\ L.data_position <= L.objects_offset
            /\ L.objects_offset < L.names_offset
            /\ L.names_offset < L.end_position
            /\ L.outside
            /\ L.size = L.end_position /\ Len(data) = L.end_position
            /\ L.position = L.end_position

\* C14 witness: a document with objects was written after an edit that made
\* the names table grow.
C14_Witness ==
    /\ doc_pc = "serialized"
    /\ Len(doc_muts) > 0
    /\ doc_out.log.layout.data_position < doc_out.log.layout.objects_offset
    /\ Len(doc.save_data.names_table) > Len(doc_loaded.save_data.names_table)
    /\ I64Val(unpack_from(doc_out.data, doc_out.log.layout.offset_position, 8))
           = doc_out.log.layout.names_offset

\* C15: in a document SaveData.write produced, every FName index written in
\* the data and the headers of the objects is less than the count of the
\* names table written in that document, every FName is written before the
\* names table, and no name is added to the table of the context after the
\* table was written.
C15_IndicesInsideWrittenTable ==
    doc_pc = "serialized" =>
        LET L == doc_out.log.layout
            data == doc_out.data
            count == I32Val(unpack_from(data, L.names_offset, 4))
        IN  /\ \A i \in 1..Len(doc_out.log.fnames) :
                   LET e == doc_out.log.fnames[i] IN
                   /\ U16Val(unpack_from(data, e.pos, 2)) % 32768 = e.index
                   /\ e.index < count
                   /\ L.data_position <= e.pos /\ e.pos + 2 <= L.names_offset
            /\ \A i \in 1..Len(doc_out.log.calls) : doc_out.log.calls[i].after <= count
            /\ count = Len(doc.save_data.names_table)

\* C15 witness: a written FName has an index that the table loaded did not
\* have.
C15_Witness ==
    /\ doc_pc = "serialized"
    /\ \E i \in 1..Len(doc_out.log.fnames) :
           /\ doc_out.log.fnames[i].index >= Len(doc_loaded.save_data.names_table)
           /\ doc_out.log.fnames[i].index
                  < I32Val(unpack_from(doc_out.data, doc_out.log.layout.names_offset, 4))

\* C16: FName.write writes the index the FName holds when that index is
\* inside the names table of the context and the slot there is the text of
\* the FName, and otherwise the index get_or_add_name(text) returns; in both
\* cases the slot at the index written holds the text of the FName and no
\* slot that existed changed.
C16_FNameIndexResolution ==
    doc_pc = "serialized" =>
        \A i \in 1..Len(doc_out.log.fnames) :
            LET e == doc_out.log.fnames[i]
                calls_before == IF i = 1 THEN 0 ELSE doc_out.log.fnames[i - 1].calls
            IN  /\ U16Val(unpack_from(doc_out.data, e.pos, 2)) % 32768 = e.index
                /\ e.slot = Some(e.name) => e.index = e.stored
                /\ e.slot # Some(e.name) =>
                       /\ e.calls > calls_before
                       /\ doc_out.log.calls[e.calls].name = e.name
                       /\ doc_out.log.calls[e.calls].index = e.index
                /\ e.at = Some(e.name)
                /\ e.kept

\* C16 witness: after an edit of the name of an FName, one FName was written
\* with the index it held and another with an index from get_or_add_name
\* that is not the one it held.
C16_Witness ==
    /\ doc_pc = "serialized"
    /\ \E j \in 1..Len(doc_muts) : doc_muts[j].op = "leaf"
    /\ \E i, j \in 1..Len(doc_out.log.fnames) :
           /\ doc_out.log.fnames[i].slot = Some(doc_out.log.fnames[i].name)
           /\ doc_out.log.fnames[i].index = doc_out.log.fnames[i].stored
           /\ doc_out.log.fnames[j].slot # Some(doc_out.log.fnames[j].name)
           /\ doc_out.log.fnames[j].index # doc_out.log.fnames[j].stored
           /\ doc_out.log.fnames[j].at = Some(doc_out.log.fnames[j].name)

\* the names for which a call of the record made the table grow, in order
RECURSIVE Appended(_, _)
Appended(calls, k) ==
    IF k > Len(calls) THEN <<>>
    ELSE (IF calls[k].after > calls[k].before THEN <<calls[k].name>> ELSE <<>>)
         \o Appended(calls, k + 1)

\* the place of the first FName.write of a name in the record
FirstWrite(fnames, name) ==
    CHOOSE i \in 1..Len(fnames) :
        fnames[i].name = name /\ \A j \in 1..(i - 1) : fnames[j].name # name

\* a step that is a call of to_decompressed on the SaveFile
IsWriteStep == doc_writes' = doc_writes + 1

\* C17: over the writes of one document the names table only grows at its
\* end: the table before a write is a prefix of the table after it, each
\* get_or_add_name call leaves the slots that exist as they are and appends
\* at most one entry, a later call for the same name returns the same index
\* (in the same write and in the next one), and the names appended are, in
\* order, those the writer met first.
C17_NamesTableAppendOnly ==
    [][IsWriteStep =>
          LET before == doc.save_data.names_table
              after == doc'.save_data.names_table
              calls == doc_out'.log.calls
              fnames == doc_out'.log.fnames
              appended == Appended(calls, 1)
          IN  /\ Len(before) <= Len(after)
              /\ SubSeq(after, 1, Len(before)) = before
              /\ SubSeq(after, Len(before) + 1, Len(after)) = appended
              /\ \A i \in 1..Len(calls) :
                     /\ calls[i].kept
                     /\ calls[i].after - calls[i].before \in {0, 1}
                     /\ calls[i].before = IF i = 1 THEN Len(before) ELSE calls[i - 1].after
                     /\ after[calls[i].index + 1] = calls[i].name
                     /\ \A j \in 1..(i - 1) :
                            calls[j].name = calls[i].name => calls[j].index = calls[i].index
              /\ doc_writes > 0 =>
                     \A i \in 1..Len(calls), j \in 1..Len(doc_out.log.calls) :
                         doc_out.log.calls[j].name = calls[i].name
                             => doc_out.log.calls[j].index = calls[i].index
              /\ \A i \in 1..Len(appended) :
                     /\ \E n \in 1..Len(fnames) : fnames[n].name = appended[i]
                     /\ \A j \in 1..(i - 1) :
                            FirstWrite(fnames, appended[j]) < FirstWrite(fnames, appended[i])
         ]_vars

\* C17 witness: the document was written twice, with an edit before each
\* write, and both writes appended a name to the table.
C17_Witness ==
    /\ doc_writes = 2
    /\ Len(doc_muts) = 2
    /\ Len(doc.save_data.names_table) = Len(doc_loaded.save_data.names_table) + 2
    /\ \E i \in 1..Len(doc_out.log.calls) :
           doc_out.log.calls[i].after > doc_out.log.calls[i].before

\* C20: UObject.write_header leaves out the path of exactly the objects for
\* which UObject.read_header takes the path from the asset path (was_loaded
\* # 0, first object of the table, asset path present: every document of the
\* model has one) and writes it inline for every other object, and the
\* objects table of an unmodified document without a non-ASCII name is read
\* again with the same was_loaded, path and loaded data for every object.
C20_PathElisionSymmetric ==
    (Len(doc_muts) = 0 /\ doc_input # InputUtf16) =>
        /\ doc_pc = "serialized" =>
               \A k \in 1..Len(doc_out.log.headers) :
                   ~doc_out.log.headers[k].inline
                       <=> (doc_out.log.headers[k].was_loaded # 0 /\ k = 1)
        /\ doc_pc = "reparsed" =>
               /\ doc_re.ok
               /\ Len(doc_re.v.save_data.objects) = Len(doc.save_data.objects)
               /\ \A k \in 1..Len(doc.save_data.objects) :
                      LET a == doc.save_data.objects[k]
                          b == doc_re.v.save_data.objects[k]
                      IN  /\ b.was_loaded = a.was_loaded
                          /\ b.object_path = a.object_path
                          /\ b.loaded_data = a.loaded_data

\* the order in which decompress_save is said to check a chunk
FaultRank(kind) ==
    CASE kind = "magic" -> 1
      [] kind = "compressor" -> 2
      [] kind = "inflate" -> 3
      [] kind = "length" -> 4

\* the first damage in file order and, within a chunk, in the order of the
\* checks
FirstFault(faults) ==
    CHOOSE f \in faults :
        \A g \in faults :
            \/ f.chunk < g.chunk
            \/ f.chunk = g.chunk /\ FaultRank(f.kind) <= FaultRank(g.kind)

\* the exception each check raises
FaultError(kind) ==
    CASE kind = "magic" -> "ValueError: Invalid chunk magic"
      [] kind = "compressor" -> "ValueError: Unknown compressor"
      [] kind = "inflate" -> "zlib.error"
      [] kind = "length" -> "ValueError: Decompressed size mismatch"

\* C18: decompress_save raises and returns no buffer when a chunk has
\* another magic, a compressor other than 3, compressed bytes that do not
\* inflate or an inflated length other than the declared decompressed_size;
\* the error is that of the first damaged chunk in file order and, in that
\* chunk, of the magic before the compressor before the inflation before
\* the length.  A file whose chunks are sound and whose outer version is
\* not the expected one is decompressed.
C18_DecompressRejectsBadChunks ==
    env_pc = "decompressed" =>
        /\ env_faults # {} =>
               /\ ~env_out.ok
               /\ env_out.v = <<>>
               /\ env_out.err = FaultError(FirstFault(env_faults).kind)
        /\ (env_faults = {} /\ unpack_from(env_comp.v, 8, 4) # U32(EXPECTED_VERSION))
               => env_out.ok

\* the decompressed bytes of chunks k..n of a compressed file, in order
RECURSIVE Inflated(_, _, _)
Inflated(out, k, n) ==
    IF k > n THEN <<>>
    ELSE ZlibDecompress(PySlice(out, ChunkStart(out, 12, k) + 49,
                                ChunkStart(out, 12, k + 1))).v
             \o Inflated(out, k + 1, n)

WrittenTwice ==
    /\ Len(doc_out.at) >= 2
    /\ doc_out.at[Len(doc_out.at)] = doc_out.at[Len(doc_out.at) - 1]

\* C28: a call of to_decompressed that follows another one on the same
\* document with no mutation in between returns the bytes the call before
\* it returned and leaves the names table as that call left it.
C28_WriteRepeatable ==
    [][(/\ IsWriteStep
        /\ doc_writes > 0
        /\ doc_out.at[Len(doc_out.at)] = Len(doc_muts)) =>
           /\ doc_out'.data = doc_out.data
           /\ doc'.save_data.names_table = doc.save_data.names_table
      ]_vars

\* a document was written twice in a row after an edit that made the first
\* of the two writes grow the names table
C28_Witness ==
    /\ WrittenTwice
    /\ doc_out.at[Len(doc_out.at)] > 0
    /\ Len(doc.save_data.names_table) > Len(doc_loaded.save_data.names_table)
    /\ doc_out.data # doc_base

\* the FInfo record k (from 1) of the info table at index_offset
InfoAt(data, index_offset, k) ==
    FInfo_read([data |-> data, pos |-> index_offset + 4 + 16 * (k - 1)]).v

\* C12: after PersistenceContainer.write into a writer at position 0, the
\* i32 at 4 is the position of the count of the info table and the i32 at 8
\* the position of the count of the dynamic table; the offset and size of
\* every FInfo delimit exactly the bytes written for its actor, which read
\* as an Actor; the regions of the actors start at byte 12 and follow one
\* another without a gap or an overlap; and PersistenceContainer.read of the
\* output gives the same version, the same actor ids in order and the same
\* destroyed list.
C12_ContainerOffsets ==
    /\ ctr_pc \in {"written", "read"} =>
           LET data == ctr_out.data
               L == ctr_out.log
               index_offset == I32Val(unpack_from(data, 4, 4))
               dynamic_offset == I32Val(unpack_from(data, 8, 4))
               n == Len(ctr.actors)
           IN  /\ index_offset = L.index_offset
               /\ U32Val(unpack_from(data, index_offset, 4)) = n
               /\ dynamic_offset = L.dynamic_offset
               /\ U32Val(unpack_from(data, dynamic_offset, 4))
                      = Len(WithDynamicData(ctr.actors, 1))
               /\ \A k \in 1..n :
                      LET info == InfoAt(data, index_offset, k)
                          offset == I32Val(info.offset)
                          size == I32Val(info.size)
                          actor == Actor_read(NewReader(PySlice(data, offset,
                                                                offset + size)))
                      IN  /\ info.unique_id = ctr.actors[k].unique_id
                          /\ offset = L.regions[k].offset
                          /\ PySlice(data, offset, offset + size) = L.regions[k].data
                          /\ actor.ok
                          /\ actor.r.pos = size
                          /\ offset = IF k = 1 THEN 12
                                      ELSE I32Val(InfoAt(data, index_offset, k - 1).offset)
                                           + I32Val(InfoAt(data, index_offset, k - 1).size)
                          /\ offset + size <= dynamic_offset
    /\ ctr_pc = "read" =>
           /\ ctr_re.ok
           /\ ctr_re.v.version = ctr.version
           /\ Len(ctr_re.v.actors) = Len(ctr.actors)
           /\ \A k \in 1..Len(ctr.actors) :
                  ctr_re.v.actors[k].unique_id = ctr.actors[k].unique_id
           /\ ctr_re.v.destroyed = ctr.destroyed

\* C12 witness: a container of two actors, one with a transform and one
\* with dynamic data, and a destroyed id was written and read again.
C12_Witness ==
    /\ ctr_pc = "read"
    /\ ctr_re.ok
    /\ Len(ctr.actors) = 2
    /\ Len(ctr.destroyed) > 0
    /\ \E k \in 1..2 : ~IsNone(ctr.actors[k].actor.transform)
    /\ \E k \in 1..2 : ~IsNone(ctr_re.v.actors[k].actor.dynamic_data)

\* the count of the dynamic table of the bytes of a container
DynamicCount(data) == U32Val(unpack_from(data, I32Val(unpack_from(data, 8, 4)), 4))

\* C25: every entry of the dynamic table that PersistenceContainer.read
\* reads ends up on an actor with the id of the entry, so that the write of
\* the container read has as many dynamic entries as the bytes read.
C25_DynamicEntriesKept ==
    ctr_pc = "rewritten" =>
        /\ \A k \in 1..Len(ctr_re.v.actors) :
               ~IsNone(ctr_re.v.actors[k].actor.dynamic_data) =>
                   ctr_re.v.actors[k].actor.dynamic_data[1].unique_id
                       = ctr_re.v.actors[k].unique_id
        /\ DynamicCount(ctr_out2.data) = DynamicCount(ctr_out.data)

\* what the code keeps: the actors with an entry have an entry of their id,
\* and the write has one entry for each of them
C25_DynamicEntriesOfActors ==
    ctr_pc = "rewritten" =>
        /\ \A k \in 1..Len(ctr_re.v.actors) :
               ~IsNone(ctr_re.v.actors[k].actor.dynamic_data) =>
                   ctr_re.v.actors[k].actor.dynamic_data[1].unique_id
                       = ctr_re.v.actors[k].unique_id
        /\ DynamicCount(ctr_out2.data) = Len(WithDynamicData(ctr_re.v.actors, 1))
        /\ DynamicCount(ctr_out2.data) <= DynamicCount(ctr_out.data)

(***************************************************************************)
(* Claims about one value read and written.                                *)
(***************************************************************************)
\* the component of the input: where its payload starts, the length it
\* declares, where the parse of its payload ends
ComponentStart == LengthOffset + 4
ComponentLength == I32Val(unpack_from(val_input.data, LengthOffset, 4))
PayloadEnd ==
    PropertyBag_read([data |-> val_input.data, pos |-> ComponentStart],
                     SerializationContext(val_input.names_table, NONE)).r.pos

\* C21: a component whose payload ends before start + length keeps the bytes
\* up to start + length, zero or not, as its extra data; Component.write
\* then writes the payload followed by exactly those bytes and the length
\* field holds the number of bytes after it, so the component is written as
\* it was read; a payload that ends after start + length is an error.
C21_ComponentTrailing ==
    (val_input.kind = "Component" /\ val_pc # "input") =>
        LET end == ComponentStart + ComponentLength IN
        /\ PayloadEnd > end => ~val_read.ok
        /\ (PayloadEnd <= end /\ end <= Len(val_input.data)) =>
              /\ val_read.ok
              /\ val_read.r.pos = end
              /\ val_read.v.extra_data =
                    (IF PayloadEnd = end THEN NONE
                     ELSE Some(SubSeq(val_input.data, PayloadEnd + 1, end)))
        /\ val_pc = "written" =>
              /\ val_out.data = SubSeq(val_input.data, 1, end)
              /\ I32Val(unpack_from(val_out.data, LengthOffset, 4))
                    = Len(val_out.data) - ComponentStart
              /\ SubSeq(val_out.data, PayloadEnd + 1, Len(val_out.data))
                    = (IF IsNone(val.v.extra_data) THEN <<>> ELSE val.v.extra_data[1])

\* a component with extra data that is not zero was read and written
C21_Witness ==
    /\ val_input.kind = "Component"
    /\ val_pc = "written"
    /\ ~IsNone(val.v.extra_data)
    /\ \E i \in 1..Len(val.v.extra_data[1]) : val.v.extra_data[1][i] # 0
    /\ PayloadEnd < ComponentStart + ComponentLength

\* a component whose payload passes start + length was read
C21_WitnessOverread ==
    /\ val_input.kind = "Component"
    /\ val_pc = "read"
    /\ PayloadEnd > ComponentStart + ComponentLength

\* the first property of the bag of the input: its type name, the size it
\* declares, where its value starts, and the read of its value
FirstType == val_input.names_table[U16Val(unpack_from(val_input.data, 2, 2)) + 1]
DeclaredSize == U32Val(unpack_from(val_input.data, SizeOffset, 4))
ValueStart == SizeOffset + 8
ValueParsed ==
    read_property_value([data |-> val_input.data, pos |-> ValueStart],
                        SerializationContext(val_input.names_table, NONE),
                        FirstType, unpack_from(val_input.data, SizeOffset, 4))
\* the bytes the read of the value consumed, less the header of its kind
\* (19 for a StructProperty, 3 for an ArrayProperty)
ConsumedSize == adjust_size_for_write(FirstType, ValueParsed.r.pos - ValueStart)

\* C22: the read of a StructProperty or an ArrayProperty whose value takes
\* more bytes than the size it declares (plus 19 or 3) fails: no bag with
\* such a property is returned.
C22_SizeMismatchFails ==
    (/\ val_input.kind = "PropertyBag"
     /\ val_pc # "input"
     /\ FirstType \in {S_StructProperty, S_ArrayProperty}
     /\ ValueParsed.ok
     /\ ConsumedSize > DeclaredSize) => ~val_read.ok

\* what the code does: the size a property declares does not decide whether
\* its read succeeds, for the kinds whose value is parsed by its structure
C22_SizeIgnored ==
    (/\ val_input.kind = "PropertyBag"
     /\ val_pc # "input"
     /\ FirstType \in {S_StructProperty, S_ArrayProperty}
     /\ ValueParsed.ok) =>
        /\ val_read.ok
        /\ val_read.v.properties[1].size = unpack_from(val_input.data, SizeOffset, 4)
        /\ val_read.v.properties[1].value = ValueParsed.v.value

\* the kinds read_property_value has a branch for, of those the model names
KnownKinds ==
    {S_IntProperty, S_StrProperty, S_NameProperty, S_StructProperty, S_ArrayProperty,
     S_MapProperty, S_ByteProperty, S_EnumProperty}
\* Property.read at the start of the input
FirstProperty ==
    Property_read(NewReader(val_input.data),
                  SerializationContext(val_input.names_table, NONE))

\* C23: a property of a kind outside the dispatch table is read without an
\* error when the buffer holds the no_raw byte and the size bytes it
\* declares; its value is those bytes, the reader is left right after them,
\* where the next property is read from; and Property.write writes the
\* name, type, size, index, no_raw byte and value bytes that were read.
C23_UnknownKindRoundTrip ==
    (/\ val_input.kind = "PropertyBag"
     /\ val_pc # "input"
     /\ FirstType \notin KnownKinds
     /\ ValueStart + 1 + DeclaredSize <= Len(val_input.data)) =>
        LET end == ValueStart + 1 + DeclaredSize IN
        /\ FirstProperty.ok
        /\ FirstProperty.v.value = SubSeq(val_input.data, ValueStart + 2, end)
        /\ FirstProperty.v.size = unpack_from(val_input.data, SizeOffset, 4)
        /\ FirstProperty.r.pos = end
        /\ val_read.ok =>
              /\ Len(val_read.v.properties) = 2
              /\ val_read.v.properties[1] = FirstProperty.v
              /\ val_read.v.properties[2]
                    = Property_read(FirstProperty.r,
                                    SerializationContext(val_input.names_table, NONE)).v
        /\ (val_pc = "written" /\ val = val_read) =>
              /\ SubSeq(val_out.data, 1, end) = SubSeq(val_input.data, 1, end)
              /\ val_out.data = SubSeq(val_input.data, 1, val_read.r.pos)

\* a bag whose first property is of an unknown kind and holds bytes was
\* read, with the property after it, and written
C23_Witness ==
    /\ val_input.kind = "PropertyBag"
    /\ val_pc = "written"
    /\ FirstType \notin KnownKinds
    /\ Len(val_read.v.properties[1].value) = 2
    /\ val_read.v.properties[2].type_name.name = S_IntProperty

\* the kinds of the model that hold one scalar: adjust_size_for_write leaves
\* their size as it is
ScalarKinds == {S_IntProperty, S_StrProperty, S_NameProperty}
\* the first property of the bytes written: the size its size field holds
\* and the bytes of its value, from the no_raw byte to its end
StoredSize == U32Val(unpack_from(val_out.data, SizeOffset, 4))
WrittenSize ==
    Property_read(NewReader(val_out.data),
                  SerializationContext(val_out.names_table, NONE)).r.pos - ValueStart

\* C26: for a property of a scalar kind whose size field agreed with its
\* bytes when it was read (the bytes after the no_raw byte), the size field
\* Property.write stores agrees with the bytes it writes for the current
\* value, also after the value was replaced by one of another length.
C26_ScalarSizeFromBytes ==
    (/\ val_input.kind = "PropertyBag"
     /\ val_pc = "written"
     /\ FirstType \in ScalarKinds
     /\ DeclaredSize = ValueParsed.r.pos - ValueStart - 1) =>
        StoredSize \in {WrittenSize - 1, WrittenSize}

\* what the code does: the size field written is the size the Property holds
C26_ScalarSizeHeld ==
    (/\ val_input.kind = "PropertyBag"
     /\ val_pc = "written"
     /\ FirstType \in ScalarKinds) =>
        StoredSize = DeclaredSize

\* an array of structs as the first property of the bag: where the struct
\* payloads start (after the elements size, the index, the struct type
\* FName, the GUID and the reserved byte) and where they end in the bytes
\* written (before the second property and the terminator of the bag)
CountOffset == ValueStart + 3
ItemsStart == ElementsSizeOffset + 4 + 4 + 2 + 16 + 1
ItemsEnd == Len(val_out.data) - Len(BagImage(<<PropInt>>))
IsStructArray ==
    /\ val_input.kind = "PropertyBag"
    /\ FirstType = S_ArrayProperty
    /\ val_read.ok
    /\ val_read.v.properties[1].value.cls = "ArrayStructProperty"

\* C27: ArrayStructProperty.write writes the number of items as the count
\* and patches the elements size to the number of bytes written for the
\* struct payloads, whatever elements size was read and with no adjustment.
C27_ElementsSize ==
    (IsStructArray /\ val_pc = "written") =>
        /\ I32Val(unpack_from(val_out.data, CountOffset, 4))
              = Len(val.v.properties[1].value.items)
        /\ U32Val(unpack_from(val_out.data, ElementsSizeOffset, 4))
              = ItemsEnd - ItemsStart
        /\ SubSeq(val_out.data, ItemsStart + 1, ItemsEnd)
              = to_bytes(WriteStructItems(
                    NewStream(NewWriter, SerializationContext(val_input.names_table, NONE)),
                    val.v.properties[1].value.element_type.name,
                    val.v.properties[1].value.items, 1).w)

\* an array of structs read with an elements size that is not the size of
\* its payloads was written after an item was appended
C27_Witness ==
    /\ IsStructArray
    /\ val_pc = "written"
    /\ U32Val(val_read.v.properties[1].value.size)
          # U32Val(unpack_from(val_out.data, ElementsSizeOffset, 4))
    /\ Len(val.v.properties[1].value.items) > Len(val_read.v.properties[1].value.items)

\* the tick count of the input and the one written
TicksRead == I64SignedVal(val_input.data)
TicksWritten == I64SignedVal(val_out.data)

\* C30: for a struct of type Timespan or DateTime, write_struct_value of
\* the value read_struct_value returned for an int64 tick count writes the
\* same int64, whether or not the tick count is a multiple of 10.
C30_TicksPreserved ==
    (val_input.kind \in ValTickKinds /\ val_pc = "written") =>
        val_out.data = val_input.data

\* what the code does: the tick count written is the one read lowered to a
\* multiple of 10, then moved toward zero by at most one where the product
\* of the seconds as a float and 10000000 falls short of that multiple
C30_TicksLowered ==
    (val_input.kind \in ValTickKinds /\ val_pc = "written") =>
        /\ TicksRead - TicksWritten \in (-1)..19
        /\ TicksWritten \in {10 * (TicksRead \div 10) + d : d \in {-1, 0, 1}}

(***************************************************************************)
(* Claims about the Reader.                                                *)
(***************************************************************************)
\* the reads and peeks that ask for a count of bytes: the count asked
RdAsked == rd_last.arg
RdReadOps == TypedReads \cup {"read_bytes"}
RdPeekOps == {"peek_bytes", "peek_uint32"}

\* C24: a typed read, a read_bytes(n) or a peek that would pass the end of
\* the buffer, and an assignment of a position outside [0, size], fails and
\* returns no data; after a failed read_bytes or peek the position is what
\* it was before the call.
C24_ReaderBounds ==
    /\ (rd_last.op \in RdReadOps \cup RdPeekOps /\ rd_last.before + RdAsked > Len(rd.data))
          => (~rd_last.ok /\ rd_last.v = <<>>)
    /\ (rd_last.op = "position" /\ (rd_last.arg < 0 \/ rd_last.arg > Len(rd.data)))
          => (~rd_last.ok /\ rd.pos = rd_last.before)
    /\ (rd_last.op \in {"read_bytes"} \cup RdPeekOps /\ ~rd_last.ok)
          => rd.pos = rd_last.before

\* a read_bytes that would pass the end of the buffer was called on a Reader
\* that had moved
C24_Witness ==
    /\ rd_last.op = "read_bytes"
    /\ rd_last.before > 0
    /\ rd_last.before + RdAsked > Len(rd.data)
    /\ ~rd_last.ok

\* C29: after any sequence of calls on a Reader, failed ones included, the
\* position is inside [0, size].
C29_PositionInRange == rd.pos >= 0 /\ rd.pos <= Len(rd.data)

====
